---- MODULE Spec2Model ----
(***************************************************************************)
(* Transfer / Payment ledger of TransferMole: the payment processor        *)
(* (start_payment, update_payment, submit_payout), the handlers that drive *)
(* it (transfer API, Stripe / Mercuryo / Circle webhooks, chain monitor)   *)
(* and the shared database connection they commit through.                 *)
(*                                                                         *)
(* Two specifications are given.  Spec runs every handler in a transaction *)
(* of its own (the handler body and the commit or rollback that ends it    *)
(* are one step).  SpecTx splits a request into the handler body and the   *)
(* middleware's commit / rollback, and lets notification tasks run in      *)
(* between, all of them on the one connection held by class Database.      *)
(***************************************************************************)
EXTENDS Integers, Sequences, FiniteSets, TLC

(***************************************************************************)
(* Bounds of the model                                                     *)
(***************************************************************************)
MaxTransfers == 1

MaxPayments == 3

MaxNotifications == 2

MaxTasks == 2

MaxRequests == 1

(***************************************************************************)
(* Absent values: None of an Optional[Decimal] and of an Optional[str]     *)
(***************************************************************************)
NullNum == -1

NullStr == "NULL"

(***************************************************************************)
(* Static world: creators, payout channels, provider accounts, proxy rules *)
(***************************************************************************)
Creators == {"alice", "bob", "carol", "dave", "relay", "erin", "frank", "grace"}

ChannelIds ==
    {"ch_alice_bank", "ch_bob_wallet", "ch_carol_circle", "ch_dave_wallet", "ch_relay_wallet",
     "ch_frank_wallet", "ch_frank_bank", "ch_grace_wallet", "ch_grace_bank"}

PayoutChannel ==
    [c \in ChannelIds |->
        CASE c = "ch_alice_bank"   -> [creator_id |-> "alice", channel_type |-> "bank_account",
                                       currency |-> "USD", network |-> NullStr]
          [] c = "ch_bob_wallet"   -> [creator_id |-> "bob", channel_type |-> "crypto",
                                       currency |-> "USDC", network |-> "Polygon"]
          [] c = "ch_carol_circle" -> [creator_id |-> "carol", channel_type |-> "crypto",
                                       currency |-> "USDC", network |-> "Polygon"]
          [] c = "ch_dave_wallet"  -> [creator_id |-> "dave", channel_type |-> "crypto",
                                       currency |-> "USDC", network |-> "Ethereum"]
          [] c = "ch_frank_wallet" -> [creator_id |-> "frank", channel_type |-> "crypto",
                                       currency |-> "USDC", network |-> "Polygon"]
          [] c = "ch_frank_bank"   -> [creator_id |-> "frank", channel_type |-> "bank_account",
                                       currency |-> "USD", network |-> NullStr]
          [] c = "ch_grace_wallet" -> [creator_id |-> "grace", channel_type |-> "crypto",
                                       currency |-> "USDC", network |-> "Polygon"]
          [] c = "ch_grace_bank"   -> [creator_id |-> "grace", channel_type |-> "bank_account",
                                       currency |-> "USD", network |-> NullStr]
          [] OTHER                 -> [creator_id |-> "relay", channel_type |-> "crypto",
                                       currency |-> "USDC", network |-> "Polygon"]]

\* rows of public.provider_account: (channel_id, provider)
ProviderAccountRows ==
    { <<"ch_alice_bank", "Stripe">>,
      <<"ch_bob_wallet", "Polygon">>,
      <<"ch_bob_wallet", "Mercuryo">>,
      <<"ch_carol_circle", "Circle">>,
      <<"ch_dave_wallet", "Ethereum">>,
      <<"ch_relay_wallet", "Polygon">>,
      <<"ch_frank_wallet", "Polygon">>,
      <<"ch_frank_bank", "Stripe">>,
      <<"ch_frank_bank", "Windapp">>,
      <<"ch_grace_wallet", "Mercuryo">>,
      <<"ch_grace_bank", "Stripe">>,
      <<"ch_grace_bank", "Windapp">> }

\* rows of public.proxy_account: (country, payout_channel_id)
ProxyRules == { <<"HK", "ch_relay_wallet">> }

\* erin lives where no proxy account is configured and has attached no channel
Country == [c \in Creators |-> IF c = "erin" THEN "DE" ELSE "HK"]

\* the KYC providers whose verification state of the creator is 'verified';
\* grace has passed neither the Stripe nor the Sumsub verification
Verified ==
    [c \in Creators |-> IF c = "grace" THEN {"Internal"} ELSE {"Stripe", "Sumsub", "Internal"}]

CRYPTO_NETWORK_NAMES == {"Polygon", "Ethereum", "Avalanche C-Chain", "Base", "BSC"}

CryptoType(network) == "crypto:" \o network

CRYPTO_PAYMENT_TYPES == { CryptoType(n) : n \in CRYPTO_NETWORK_NAMES }

ONE_STEP_ROUTE_PAYMENTS == {"card"} \cup CRYPTO_PAYMENT_TYPES

SECOND_PAYMENT_TYPES == {"internal:bank_account"} \cup CRYPTO_PAYMENT_TYPES

SupportedPaymentTypesUngated(row, verification) ==
    LET ch == PayoutChannel[row[1]]
        provider == row[2]
    IN  CASE provider = "Stripe"   -> {"card", "internal:bank_account"}
          [] provider = "Windapp"  -> IF "Internal" \in verification
                                      THEN {"internal:bank_account"} ELSE {}
          [] provider = "Mercuryo" -> {"card", "onramp"}
          [] OTHER                 -> {CryptoType(ch.network)}

\* supported_payment_types of a provider account, as its load() computes it
SupportedPaymentTypes(row, verification) ==
    LET ch == PayoutChannel[row[1]]
        provider == row[2]
    IN  CASE provider = "Stripe"   -> IF "Stripe" \in verification
                                      THEN {"card", "internal:bank_account"} ELSE {}
          [] provider = "Windapp"  -> IF "Internal" \in verification
                                      THEN {"internal:bank_account"} ELSE {}
          [] provider = "Mercuryo" -> {"card"} \cup
                                      (IF "Sumsub" \in verification THEN {"onramp"} ELSE {})
          [] OTHER                 -> {CryptoType(ch.network)}

\* provider parameters (public.payout_provider)
ProviderParams ==
    [p \in {"Stripe", "Windapp", "Polygon", "Ethereum", "Mercuryo", "Circle"} |->
        [default_fee |-> 0, transfer_min_usd |-> 1, transfer_max_usd |-> 1000]]

\* exchange rate table (public.currency); USD is 1 by definition
ExchangeRateToUsd(currency) == 1

(***************************************************************************)
(* Status columns                                                          *)
(***************************************************************************)
\* column default of public.transfer.status
DefaultTransferStatus == "created"

\* column default of public.payment.status
DefaultPaymentStatus == "created"

(***************************************************************************)
(* State                                                                   *)
(***************************************************************************)
\* worker processes of the API service, each with a connection of its own
Workers == {1, 2}

VARIABLES
    transfers,  \* rows of public.transfer joined with public.payment, as the
                \* shared connection sees them; transfer_id is the index
    sent,       \* per transfer: number of send_notification calls, by kind
    last,       \* the call that made the latest step, and its outcome
    durable,    \* the committed rows
    open,       \* requests whose handler has run and whose middleware has
                \* not yet committed or rolled back
    tasks,      \* notification tasks: created and not yet run (new), and
                \* past their first commit, sending (sending)
    foreign,    \* requests whose pending writes the latest step made durable
                \* with a commit that was not their own
    sweep,      \* the chain monitor's loop: where TransactionMonitor.run stands
    calc,       \* the latest call of a function of the library, and its result
    payout_provider,  \* rows of public.payout_provider: the parameters by provider
    accounts,   \* rows of public.payout_channel (channel_id is the index) and
                \* of public.provider_account, and the account notifications
                \* handed to send_notification
    creating,   \* per worker process: the Transfer object its handler loaded
                \* and has not yet added a payment to, or the Payment object
                \* it loaded and has not yet updated
    chain,      \* the networks: each chain's head, the block of each transaction,
                \* the nodes that do not answer, and latest_block of each
                \* EthereumLikeNetwork object
    pg,         \* the database as the workers' connections see it, statement
                \* by statement: the committed rows of one wallet in
                \* public.payout_channel and public.provider_account, and
                \* each connection's open transaction
    removed     \* the channels of the static world whose row in
                \* public.payout_channel has removed = True

vars == <<transfers, sent, last, durable, open, tasks, foreign, sweep, calc, payout_provider, accounts, creating, chain, pg, removed>>

(***************************************************************************)
(* Route planner (payment_processor.py)                                    *)
(***************************************************************************)
\* no route: get_cheapest_route raised
NoRoute == [first_step |-> NullStr, second_step |-> NullStr, remittance_user_id |-> NullStr]

NoStep ==
    [sender_channel_id |-> NullStr, channel_id |-> NullStr,
     provider |-> NullStr, payment_type |-> NullStr]

RouteStep(sender_channel_id, row, payment_type) ==
    [sender_channel_id |-> sender_channel_id, channel_id |-> row[1],
     provider |-> row[2], payment_type |-> payment_type]

\* a recipient is a creator or one channel (isinstance(recipient,
\* PayoutChannel)); the verification states get_provider_accounts loads the
\* accounts with
VerificationStates(recipient) ==
    IF recipient \in ChannelIds THEN {} ELSE Verified[recipient]

GetProviderAccountsWithRemoved(recipient) ==
    IF recipient \in ChannelIds
    THEN { row \in ProviderAccountRows : row[1] = recipient }
    ELSE { row \in ProviderAccountRows : PayoutChannel[row[1]].creator_id = recipient }

\* AccountFactory.get_provider_accounts: the provider accounts of the
\* creator's channels, or of the one channel, WHERE pc.removed = False
GetProviderAccounts(recipient) ==
    IF recipient \in ChannelIds
    THEN { row \in ProviderAccountRows : row[1] = recipient /\ row[1] \notin removed }
    ELSE { row \in ProviderAccountRows :
             PayoutChannel[row[1]].creator_id = recipient /\ row[1] \notin removed }

\* AccountFactory.get_proxy_provider_accounts: the provider accounts of the
\* proxy channels of the creator's country, WHERE pc.removed = False
GetProxyProviderAccounts(recipient) ==
    { row \in ProviderAccountRows :
        <<Country[recipient], row[1]>> \in ProxyRules /\ row[1] \notin removed }

OneStepRoutes(recipient, sender_channel) ==
    { [first_step |-> RouteStep(sender_channel, row, pt),
       second_step |-> NoStep,
       remittance_user_id |-> NullStr] :
        <<row, pt>> \in
            { x \in GetProviderAccounts(recipient) \X ONE_STEP_ROUTE_PAYMENTS :
                x[2] \in SupportedPaymentTypes(x[1], VerificationStates(recipient)) } }

RemittanceUserUnset(proxy_row) == NullStr

\* remittance_user_id of a two-step route: proxy_provider_acc.payout_channel.creator_id
RemittanceUser(proxy_row) == PayoutChannel[proxy_row[1]].creator_id

TwoStepRoutes(recipient, sender_channel) ==
    IF recipient \in ChannelIds THEN {} ELSE
    { [first_step |-> RouteStep(sender_channel, x[1], x[2]),
       second_step |-> RouteStep(NullStr, x[3], x[4]),
       remittance_user_id |-> RemittanceUser(x[1])] :
        x \in
            { y \in GetProxyProviderAccounts(recipient) \X CRYPTO_PAYMENT_TYPES
                    \X GetProviderAccounts(recipient) \X SECOND_PAYMENT_TYPES :
                /\ y[2] \in SupportedPaymentTypes(y[1], Verified[recipient])
                /\ y[4] \in SupportedPaymentTypes(y[3], Verified[recipient]) } }

get_available_routes(recipient, sender_channel) ==
    OneStepRoutes(recipient, sender_channel) \cup TwoStepRoutes(recipient, sender_channel)

estimated_fee(route) ==
    payout_provider[route.first_step.provider].default_fee
    + (IF route.second_step # NoStep
       THEN payout_provider[route.second_step.provider].default_fee ELSE 0)

transfer_min_usd(route) ==
    LET a == payout_provider[route.first_step.provider].transfer_min_usd
    IN  IF route.second_step # NoStep
           /\ payout_provider[route.second_step.provider].transfer_min_usd > a
        THEN payout_provider[route.second_step.provider].transfer_min_usd ELSE a

transfer_max_usd(route) ==
    LET a == payout_provider[route.first_step.provider].transfer_max_usd
    IN  IF route.second_step # NoStep
           /\ payout_provider[route.second_step.provider].transfer_max_usd < a
        THEN payout_provider[route.second_step.provider].transfer_max_usd ELSE a

\* routes left after the payment-type filter and the amount filter
CandidateRoutes(recipient, sender_channel, payment_type, currency, amount) ==
    LET typed == { r \in get_available_routes(recipient, sender_channel) :
                     r.first_step.payment_type = payment_type }
    IN  IF amount # NullNum /\ amount # 0 /\ currency # NullStr
        THEN { r \in typed :
                 /\ transfer_min_usd(r) <= amount * ExchangeRateToUsd(currency)
                 /\ amount * ExchangeRateToUsd(currency) <= transfer_max_usd(r) }
        ELSE typed

\* the message of the APIError get_cheapest_route raises once it has routes;
\* "none" when it returns one
typed_route_error(recipient, sender_channel, payment_type, currency, amount) ==
    LET typed == { r \in get_available_routes(recipient, sender_channel) :
                     r.first_step.payment_type = payment_type }
        amount_usd == amount * ExchangeRateToUsd(currency)
    IN  IF typed = {} THEN "Routes not found"
        ELSE IF amount # NullNum /\ amount # 0 /\ currency # NullStr
        THEN IF \A r \in typed : transfer_min_usd(r) > amount_usd
             THEN "The min amount for this payment route"
             ELSE IF \A r \in typed : transfer_max_usd(r) < amount_usd
             THEN "The max amount for this payment route"
             ELSE IF CandidateRoutes(recipient, sender_channel, payment_type, currency, amount) = {}
             THEN "Routes not found"
             ELSE "none"
        ELSE "none"

cheapest_route_error_unready(recipient, sender_channel, payment_type, currency, amount) ==
    typed_route_error(recipient, sender_channel, payment_type, currency, amount)

\* the message of the APIError get_cheapest_route raises; "none" when it
\* returns a route
cheapest_route_error(recipient, sender_channel, payment_type, currency, amount) ==
    IF get_available_routes(recipient, sender_channel) = {}
    THEN "User is not ready to accept payments"
    ELSE typed_route_error(recipient, sender_channel, payment_type, currency, amount)

\* The routes get_cheapest_route may return: list.sort is stable, one-step
\* routes precede two-step routes in the list, and the order inside each group
\* is the order of the rows the database returned.
get_cheapest_route(recipient, sender_channel, payment_type, currency, amount) ==
    LET cand == CandidateRoutes(recipient, sender_channel, payment_type, currency, amount)
        cheapest == { r \in cand : \A q \in cand : estimated_fee(r) <= estimated_fee(q) }
        direct == { r \in cheapest : r.second_step = NoStep }
    IN  IF direct # {} THEN direct ELSE cheapest

(***************************************************************************)
(* Payment ledger (payment.py)                                             *)
(***************************************************************************)
\* UpdatePaymentParams with every field absent
NoPatch ==
    [status |-> NullStr, external_id |-> NullStr, total_amount |-> NullNum,
     to_usd_rate |-> NullNum, provider_fee |-> NullNum]

\* UpdatePaymentParams.validate_self: "if self.total_amount: if not self.to_usd_rate"
ValidPatch(patch) ==
    ~ ( /\ patch.total_amount # NullNum /\ patch.total_amount # 0
        /\ (patch.to_usd_rate = NullNum \/ patch.to_usd_rate = 0) )

\* Payment.create_new
NewPayment(payment_index, step, currency) ==
    [payment_index |-> payment_index,
     sender_channel_id |-> step.sender_channel_id,
     payout_channel_id |-> step.channel_id,
     payment_type |-> step.payment_type,
     provider |-> step.provider,
     currency |-> currency,
     external_id |-> NullStr, total_amount |-> NullNum,
     to_usd_rate |-> NullNum, provider_fee |-> NullNum,
     status |-> DefaultPaymentStatus]

PaymentUpdateOverwriting(p, patch) ==
    [p EXCEPT !.status = patch.status, !.external_id = patch.external_id,
              !.total_amount = patch.total_amount, !.to_usd_rate = patch.to_usd_rate,
              !.provider_fee = patch.provider_fee]

\* Payment.update on the object (self.__dict__[key] = value): only the
\* supplied (non-None) fields are written
PaymentUpdate(p, patch) ==
    [p EXCEPT
        !.status       = IF patch.status # NullStr THEN patch.status ELSE @,
        !.external_id  = IF patch.external_id # NullStr THEN patch.external_id ELSE @,
        !.total_amount = IF patch.total_amount # NullNum THEN patch.total_amount ELSE @,
        !.to_usd_rate  = IF patch.to_usd_rate # NullNum THEN patch.to_usd_rate ELSE @,
        !.provider_fee = IF patch.provider_fee # NullNum THEN patch.provider_fee ELSE @]

\* Payment.update on the database: the keys of the UPDATE's SET list, and the
\* row after it; no statement is executed when the list is empty
PaymentUpdateQuery(row, patch) ==
    LET keys == { key \in DOMAIN patch :
                    IF key \in {"status", "external_id"}
                    THEN patch[key] # NullStr ELSE patch[key] # NullNum }
    IN  [executed |-> keys # {},
         row |-> [column \in DOMAIN row |-> IF column \in keys THEN patch[column] ELSE row[column]]]

NoNotifications == [TransferComplete |-> 0, PayoutRequest |-> 0]

\* ids issued by the providers and the chain
TxIds == {"0xt1", "0xt2"}

\* what a handler leaves behind: the rows, the notifications sent, the result
\* (OK or the APIError code), and the update_payment call it made, if any
Outcome(tr, nt, res) ==
    [tr |-> tr, nt |-> nt, res |-> res, upd_idx |-> -1, upd_status |-> NullStr]

Via(o, idx, status) == [o EXCEPT !.upd_idx = idx, !.upd_status = status]

Notify(nt, t, kind) == [nt EXCEPT ![t][kind] = @ + 1]

\* Transfer.set_status
set_status(tr, t, status) == [tr EXCEPT ![t].status = status]

set_tm_fee_dropped(tr, t, tm_fee) == tr

\* Transfer.set_tm_fee
set_tm_fee(tr, t, tm_fee) == [tr EXCEPT ![t].tm_fee = tm_fee]

\* Transfer.get_by_id joins transfer with payment: a transfer without payments
\* is not found
TransferFound(tr, t) == t \in 1..Len(tr) /\ Len(tr[t].payments) > 0

\* Payment.load
PaymentFound(tr, t, idx) == t \in 1..Len(tr) /\ idx < Len(tr[t].payments)

(***************************************************************************)
(* update_payment (payment_processor.py)                                   *)
(***************************************************************************)
ReachedReceiverOrProcessor(owner, transfer) ==
    owner = transfer.creator_id \/ owner = transfer.remittance_user

\* "payment reached receiver"
ReachedReceiver(owner, transfer) == owner = transfer.creator_id

\* "payment reached payment processor"
ReachedProcessor(owner, transfer) == owner = transfer.remittance_user

\* the condition under which TransferComplete is sent
IsFinalForType(payment_type, status) ==
    \/ payment_type \in CRYPTO_PAYMENT_TYPES /\ status = "paid out"
    \/ payment_type = "card" /\ status = "payment complete"

\* the condition under which the processor branch asks for the payout
IsFinalSuccess(status) == status \in {"paid out", "payment complete"}

update_payment_body(tr, nt, t, idx, patch, tm_fee) ==
    IF ~TransferFound(tr, t) THEN Outcome(tr, nt, "OBJECT_NOT_FOUND")
    ELSE IF ~ValidPatch(patch) THEN Outcome(tr, nt, "PAYMENT")
    ELSE
      LET payment == tr[t].payments[idx + 1]
          tr1 == [tr EXCEPT ![t].payments[idx + 1] = PaymentUpdate(@, patch)]
          tr2 == IF tm_fee # NullNum /\ tm_fee # 0 THEN set_tm_fee(tr1, t, tm_fee) ELSE tr1
          owner == PayoutChannel[payment.payout_channel_id].creator_id
          status == patch.status
      IN  IF status = NullStr THEN Outcome(tr1, nt, "PAYMENT")
          ELSE IF ReachedReceiver(owner, tr[t])
          THEN Outcome(set_status(tr2, t, status),
                       IF IsFinalForType(payment.payment_type, status)
                       THEN Notify(nt, t, "TransferComplete") ELSE nt,
                       "OK")
          ELSE IF ReachedProcessor(owner, tr[t]) /\ payment.payment_index = 0
          THEN IF IsFinalSuccess(status)
               THEN Outcome(set_status(tr2, t, "pending payout"),
                            Notify(nt, t, "PayoutRequest"), "OK")
               ELSE IF status = "submitted"
               THEN Outcome(set_status(tr2, t, "submitted"), nt, "OK")
               ELSE Outcome(tr2, nt, "OK")
          ELSE Outcome(tr2, nt, "OK")

update_payment(tr, nt, t, idx, patch, tm_fee) ==
    Via(update_payment_body(tr, nt, t, idx, patch, tm_fee), idx, patch.status)

(***************************************************************************)
(* start_payment (payment_processor.py)                                    *)
(***************************************************************************)
\* receive_payment of the provider account variants; provider_ok is the
\* answer of the provider's REST call (Stripe checkout session creation)
receive_payment(step, payment_type, amount, t, provider_ok) ==
    LET ch == PayoutChannel[step.channel_id]
        Intent(currency, external_id) ==
            [ok |-> TRUE, currency |-> currency, external_id |-> external_id, err |-> NullStr]
        Refused(err) ==
            [ok |-> FALSE, currency |-> NullStr, external_id |-> NullStr, err |-> err]
    IN  CASE step.provider = "Stripe" ->
               IF payment_type = "card"
               THEN IF provider_ok THEN Intent("USD", ("cs_" \o ToString(t))) ELSE Refused("INTERNAL")
               ELSE IF payment_type = "internal:bank_account"
               THEN Intent(ch.currency, NullStr)
               ELSE Refused("INTERNAL")
          [] step.provider = "Windapp" ->
               IF payment_type = "internal:bank_account"
               THEN Intent(ch.currency, NullStr) ELSE Refused("INTERNAL")
          [] step.provider = "Mercuryo" ->
               IF payment_type \in {"card", "onramp"}
               THEN Intent("USD", NullStr) ELSE Refused("INTERNAL")
          [] OTHER ->
               IF amount = NullNum \/ amount = 0 THEN Refused("PAYMENT")
               ELSE IF payment_type # CryptoType(ch.network) THEN Refused("INTERNAL")
               ELSE Intent(ch.currency, NullStr)

\* Transfer.create_new
NewTransfer(creator_id, remittance_user) ==
    [creator_id |-> creator_id, remittance_user |-> remittance_user,
     status |-> DefaultTransferStatus, tm_fee |-> NullNum, payments |-> << >>]

\* Transfer.create_payment: payment_index = len(self.payments)
create_payment(tr, t, step, currency) ==
    [tr EXCEPT ![t].payments = Append(@, NewPayment(Len(@), step, currency))]

FirstPaymentStatusUnset == "created"

\* the status start_payment writes on payment 0
FirstPaymentStatus == "pending"

start_payment(tr, nt, recipient, payment_type, amount, route, provider_ok) ==
    LET t == Len(tr) + 1
        \* recipient.creator_id, of a Creator or of a PayoutChannel
        creator_id == IF recipient \in ChannelIds
                      THEN PayoutChannel[recipient].creator_id ELSE recipient
        tr1 == Append(tr, NewTransfer(creator_id, route.remittance_user_id))
        intent == receive_payment(route.first_step, payment_type, amount, t, provider_ok)
        patch == [NoPatch EXCEPT !.status = FirstPaymentStatus,
                                 !.total_amount = amount,
                                 !.to_usd_rate = ExchangeRateToUsd(intent.currency),
                                 !.external_id = intent.external_id]
        tr2 == create_payment(tr1, t, route.first_step, intent.currency)
        tr3 == [tr2 EXCEPT ![t].payments[1] = PaymentUpdate(@, patch)]
        tr4 == IF route.second_step # NoStep
               THEN create_payment(tr3, t, route.second_step,
                                   PayoutChannel[route.second_step.channel_id].currency)
               ELSE tr3
    IN  IF ~intent.ok THEN Outcome(tr1, Append(nt, NoNotifications), intent.err)
        ELSE IF ~ValidPatch(patch) THEN Outcome(tr2, Append(nt, NoNotifications), "PAYMENT")
        ELSE Outcome(tr4, Append(nt, NoNotifications), "OK")

(***************************************************************************)
(* submit_payout and the admin endpoints (payment_processor.py,            *)
(* routers/transfer_api.py)                                                *)
(***************************************************************************)
PayoutLegalOrSubmitted(transfer) == transfer.status \in {"pending payout", "submitted"}

\* the state in which submit_payout is legal
PayoutLegal(transfer) == transfer.status = "pending payout"

\* submit_payout's expected_amount, in whole units of the payout currency
expected_amount(total_amount, to_usd_rate, provider_fee1, provider_fee2, tm_fee, payout_rate) ==
    (total_amount * to_usd_rate - provider_fee1 - provider_fee2 - tm_fee) \div payout_rate

\* validate_ok is the verdict of validate_existing_transaction (the chain's or
\* Stripe's record of the settlement).  The comparison of the expected amount
\* with the supplied one builds an APIError and drops it.
submit_payout(tr, nt, t, provider_fee1, provider_fee2, tm_fee, amount, external_id, validate_ok) ==
    IF ~PayoutLegal(tr[t]) THEN Outcome(tr, nt, "ACCESS_ERROR")
    ELSE IF Len(tr[t].payments) < 2 THEN Outcome(tr, nt, "INTERNAL")
    ELSE
      LET second == tr[t].payments[2]
          rate == ExchangeRateToUsd(PayoutChannel[second.payout_channel_id].currency)
          patch2 == [NoPatch EXCEPT !.status = "submitted",
                                    !.external_id = external_id,
                                    !.provider_fee = provider_fee2,
                                    !.total_amount = amount,
                                    !.to_usd_rate = rate]
          tr1 == set_tm_fee(tr, t, tm_fee)
          tr2 == [tr1 EXCEPT ![t].payments[1] =
                     PaymentUpdate(@, [NoPatch EXCEPT !.provider_fee = provider_fee1])]
          tr3 == [tr2 EXCEPT ![t].payments[2] = PaymentUpdate(@, patch2)]
      IN  IF ~validate_ok THEN Outcome(tr, nt, "PAYMENT")
          ELSE IF ~ValidPatch(patch2) THEN Outcome(tr2, nt, "PAYMENT")
          ELSE Outcome(set_status(tr3, t, "submitted"), nt, "OK")

\* admin_submit_payout: the caller must be the transfer's remittance_user
admin_submit_payout(tr, nt, t, admin, provider_fee1, provider_fee2, tm_fee, amount, external_id, validate_ok) ==
    IF ~TransferFound(tr, t) THEN Outcome(tr, nt, "OBJECT_NOT_FOUND")
    ELSE IF tr[t].remittance_user # admin THEN Outcome(tr, nt, "ACCESS_ERROR")
    ELSE submit_payout(tr, nt, t, provider_fee1, provider_fee2, tm_fee, amount,
                       external_id, validate_ok)

\* admin_cancel_payout
admin_cancel_payout(tr, nt, t) ==
    IF ~TransferFound(tr, t) THEN Outcome(tr, nt, "OBJECT_NOT_FOUND")
    ELSE IF tr[t].status = "pending payout"
    THEN Outcome(set_status(tr, t, "canceled"), nt, "OK")
    ELSE Outcome(tr, nt, "INTERNAL")

(***************************************************************************)
(* transfer_submit_crypto (routers/transfer_api.py)                        *)
(***************************************************************************)
\* check_ok is the verdict of CryptoNetwork.check_transaction
transfer_submit_crypto(tr, nt, t, transaction_id, check_ok) ==
    IF ~PaymentFound(tr, t, 0) THEN Outcome(tr, nt, "PAYMENT")
    ELSE
      LET payment == tr[t].payments[1]
      IN  IF payment.total_amount = NullNum \/ payment.total_amount = 0
          THEN Outcome(tr, nt, "PAYMENT")
          ELSE IF payment.external_id # NullStr \/ payment.status = "paid out"
          THEN Outcome(tr, nt, "PAYMENT")
          ELSE IF PayoutChannel[payment.payout_channel_id].channel_type # "crypto"
          THEN Outcome(tr, nt, "OBJECT_NOT_FOUND")
          ELSE IF ~check_ok THEN Outcome(tr, nt, "TRX_CHECK_ERROR")
          ELSE update_payment(tr, nt, t, 0,
                   [NoPatch EXCEPT !.external_id = transaction_id, !.status = "submitted"],
                   NullNum)

(***************************************************************************)
(* Stripe webhook (routers/stripe_webhook.py)                              *)
(***************************************************************************)
\* Payment.get_stripe_payment_by_checkout_session: the payments the query
\* matches, as <<transfer_id, payment_index>>
StripePaymentsBySession(tr, session) ==
    { x \in (1..Len(tr)) \X (0..(MaxPayments - 1)) :
        /\ x[2] < Len(tr[x[1]].payments)
        /\ tr[x[1]].payments[x[2] + 1].payment_type = "card"
        /\ tr[x[1]].payments[x[2] + 1].provider = "Stripe"
        /\ tr[x[1]].payments[x[2] + 1].external_id = session }

\* Config.TRANSFERMOLE_FEE_USD / 100
TransferMoleFee == 1

checkout_session_completed(tr, nt, x, amount, payment_intent) ==
    update_payment(tr, nt, x[1], x[2],
        [NoPatch EXCEPT !.total_amount = amount,
                        !.to_usd_rate = ExchangeRateToUsd(tr[x[1]].payments[x[2] + 1].currency),
                        !.external_id = payment_intent,
                        !.status = "payment complete"],
        TransferMoleFee)

checkout_session_expired(tr, nt, x) ==
    update_payment(tr, nt, x[1], x[2], [NoPatch EXCEPT !.status = "expired"], NullNum)

\* Payment.stripe_payment_intents_completed: one UPDATE over public.payment
stripe_payment_intents_completed(tr, payment_intents) ==
    [t \in 1..Len(tr) |->
        [tr[t] EXCEPT !.payments =
            [i \in 1..Len(tr[t].payments) |->
                IF /\ tr[t].payments[i].payment_type = "card"
                   /\ tr[t].payments[i].provider = "Stripe"
                   /\ tr[t].payments[i].status # "paid out"
                   /\ tr[t].payments[i].external_id \in payment_intents
                THEN [tr[t].payments[i] EXCEPT !.status = "paid out"]
                ELSE tr[t].payments[i]]]]

(***************************************************************************)
(* Mercuryo webhook (routers/mercuryo_webhook.py)                          *)
(***************************************************************************)
MercuryoBuyStatuses ==
    {"new", "pending", "cancelled", "paid", "order_failed", "order_scheduled",
     "order_verified_not_complete", "failed_exchange", "descriptor_failed"}

MercuryoWithdrawStatuses == {"completed", "failed", "pending"}

\* _set_transfer_status
_set_transfer_status(tr, nt, t, status) ==
    IF ~TransferFound(tr, t) THEN Outcome(tr, nt, "OBJECT_NOT_FOUND")
    ELSE IF tr[t].status # status THEN Outcome(set_status(tr, t, status), nt, "OK")
    ELSE Outcome(tr, nt, "OK")

MercuryoPaymentStatusVerbatim(event_status) == event_status

\* the status process_buy_event hands to update_payment
MercuryoPaymentStatus(event_status) == IF event_status = "new" THEN "created" ELSE "paid"

process_buy_event(tr, nt, t, event_status, fiat_currency, fiat_amount, partner_fee) ==
    CASE event_status \in {"new", "paid"} ->
           IF ~PaymentFound(tr, t, 0) THEN Outcome(tr, nt, "PAYMENT")
           ELSE IF event_status = "new" /\ fiat_currency # tr[t].payments[1].currency
           THEN Outcome(tr, nt, "OK")
           ELSE update_payment(tr, nt, t, 0,
                    [NoPatch EXCEPT !.total_amount = fiat_amount,
                                    !.to_usd_rate = ExchangeRateToUsd(fiat_currency),
                                    !.external_id = ("mc_" \o ToString(t)),
                                    !.status = MercuryoPaymentStatus(event_status)],
                    IF partner_fee # NullNum /\ partner_fee # 0
                    THEN partner_fee * ExchangeRateToUsd(fiat_currency) ELSE NullNum)
      [] event_status = "cancelled" -> _set_transfer_status(tr, nt, t, "canceled")
      [] event_status \in {"order_failed", "failed_exchange", "descriptor_failed"} ->
           _set_transfer_status(tr, nt, t, "failed")
      [] OTHER -> Outcome(tr, nt, "OK")

process_withdraw_event(tr, nt, t, event_status, currency, amount) ==
    CASE event_status = "completed" ->
           IF ~TransferFound(tr, t) THEN Outcome(tr, nt, "OBJECT_NOT_FOUND")
           ELSE
             LET first == tr[t].payments[1]
                 ch == PayoutChannel[first.payout_channel_id]
                 step == [sender_channel_id |-> NullStr,
                          channel_id |-> first.payout_channel_id,
                          provider |-> "Mercuryo",
                          payment_type |-> CryptoType(ch.network)]
                 tr1 == create_payment(tr, t, step, currency)
             IN  IF ch.channel_type # "crypto" THEN Outcome(tr, nt, "OBJECT_NOT_FOUND")
                 ELSE update_payment(tr1, nt, t, Len(tr[t].payments),
                          [NoPatch EXCEPT !.total_amount = amount,
                                          !.to_usd_rate = ExchangeRateToUsd(currency),
                                          !.external_id = ("mc_" \o ToString(t)),
                                          !.status = "paid out"],
                          NullNum)
      [] event_status = "failed" -> _set_transfer_status(tr, nt, t, "failed")
      [] OTHER -> Outcome(tr, nt, "OK")

(***************************************************************************)
(* Circle webhook (routers/circle_webhook.py)                              *)
(***************************************************************************)
process_outbound_transaction(tr, nt, t, amount, currency, txHash) ==
    IF ~PaymentFound(tr, t, 0) THEN Outcome(tr, nt, "PAYMENT")
    ELSE update_payment(tr, nt, t, 0,
             [NoPatch EXCEPT !.total_amount = amount,
                             !.to_usd_rate = ExchangeRateToUsd(currency),
                             !.external_id = txHash,
                             !.status = "paid out"],
             NullNum)

process_inbound_transaction(tr, nt, channel_id, amount, currency, txHash) ==
    LET t == Len(tr) + 1
        ch == PayoutChannel[channel_id]
        step == [sender_channel_id |-> NullStr, channel_id |-> channel_id,
                 provider |-> "Circle", payment_type |-> CryptoType(ch.network)]
        tr1 == Append(tr, NewTransfer(ch.creator_id, NullStr))
        tr2 == create_payment(tr1, t, step, currency)
    IN  update_payment(tr2, Append(nt, NoNotifications), t, 0,
            [NoPatch EXCEPT !.total_amount = amount,
                            !.to_usd_rate = ExchangeRateToUsd(currency),
                            !.external_id = txHash,
                            !.status = "paid out"],
            NullNum)

(***************************************************************************)
(* Chain monitor (service/chain_monitor/transaction_monitor.py)            *)
(***************************************************************************)
\* what EthereumLikeNetwork.get_transaction_status can return
TransactionStatuses == {"pending", "failed", "confirmed"}

\* Payment.get_submitted_crypto_payments
get_submitted_crypto_payments(tr, network) ==
    { x \in (1..Len(tr)) \X (0..(MaxPayments - 1)) :
        /\ x[2] < Len(tr[x[1]].payments)
        /\ tr[x[1]].payments[x[2] + 1].payment_type = CryptoType(network)
        /\ tr[x[1]].payments[x[2] + 1].status = "submitted" }

_process_pending_payment(tr, nt, x, trx_status) ==
    IF tr[x[1]].payments[x[2] + 1].external_id = NullStr THEN Outcome(tr, nt, "OK")
    ELSE IF trx_status = "confirmed"
    THEN update_payment(tr, nt, x[1], x[2], [NoPatch EXCEPT !.status = "paid out"], NullNum)
    ELSE IF trx_status = "rejected"
    THEN update_payment(tr, nt, x[1], x[2], [NoPatch EXCEPT !.status = "rejected"], NullNum)
    ELSE Outcome(tr, nt, "OK")

(***************************************************************************)
(* The chain adapter (crypto_network.py).  A str is the sequence of its    *)
(* characters.  A bytes value is the sequence of its hexadecimal digits,   *)
(* two to a byte, in lower case: bytes have no case.                       *)
(***************************************************************************)
\* '0123456789abcdef'
HexDigits == <<"0", "1", "2", "3", "4", "5", "6", "7", "8", "9", "a", "b", "c", "d", "e", "f">>

\* str.lower on one character
LowerChar(c) ==
    CASE c = "A" -> "a" [] c = "B" -> "b" [] c = "C" -> "c" [] c = "D" -> "d"
      [] c = "E" -> "e" [] c = "F" -> "f" [] c = "G" -> "g" [] c = "X" -> "x"
      [] OTHER -> c

\* str.lower
lower(s) == [i \in 1..Len(s) |-> LowerChar(s[i])]

TRANSFER_METHOD_ID == <<"a", "9", "0", "5", "9", "c", "b", "b">>

\* a raised APIError, by its code, and a returned value
Raised(code) == [ok |-> FALSE, code |-> code, value |-> << >>]

Returned(value) == [ok |-> TRUE, code |-> "OK", value |-> value]

_check_hex_as_typed(address) ==
    \A i \in 1..Len(address) : \E k \in 1..16 : HexDigits[k] = address[i]

_check_hex(address) ==
    \A i \in 1..Len(address) : \E k \in 1..16 : HexDigits[k] = LowerChar(address[i])

check_wallet_address(address) ==
    IF \/ Len(address) # 42
       \/ SubSeq(address, 1, 2) # <<"0", "x">>
       \/ ~_check_hex(SubSeq(address, 3, Len(address)))
    THEN Raised("WRONG_WALLET_ADDR")
    ELSE Returned(lower(address))

\* create_polygon_network: the currencies of the network; a contract_address
\* of None is << >>
Currencies ==
    [c \in {"USDC"} |->
        [decimals |-> 6,
         contract_address |->
            <<"0", "x", "3", "c", "4", "9", "9", "c", "5", "4", "2", "c", "E", "F", "5", "E", "3", "8", "1", "1", "e">>
            \o <<"1", "1", "9", "2", "c", "e", "7", "0", "d", "8", "c", "C", "0", "3", "d", "5", "c", "3", "3", "5", "9">>]]

\* CryptoAccountDetails.validate_params (payout/crypto_account.py)
CryptoAccountDetails(network, address, currency) ==
    LET checked == check_wallet_address(address)
    IN  IF ~checked.ok THEN checked
        ELSE IF currency \notin DOMAIN Currencies THEN Raised("INTERNAL")
        ELSE Returned([network |-> network, address |-> checked.value, currency |-> currency])

\* A Decimal amount is coefficient x 10^exponent, exponent <= 0.
\* amount_int = int(amount * pow(10, decimals)): int() of a Decimal drops the
\* fraction, towards zero.
create_transaction(destination, currency_name, amount) ==
    IF currency_name \notin DOMAIN Currencies THEN Raised("PAYMENT")
    ELSE
      LET currency == Currencies[currency_name]
          shift == currency.decimals + amount.exponent
          magnitude == IF amount.coefficient < 0 THEN -amount.coefficient ELSE amount.coefficient
          whole == IF shift >= 0 THEN magnitude * (10 ^ shift) ELSE magnitude \div (10 ^ (-shift))
          amount_int == IF amount.coefficient < 0 THEN -whole ELSE whole
          \* hex(n)[2:]
          HexOf(n) ==
              LET digits[k \in 0..n] ==
                      IF k < 16 THEN <<HexDigits[k + 1]>>
                      ELSE digits[k \div 16] \o <<HexDigits[(k % 16) + 1]>>
              IN  digits[n]
          \* str.zfill
          zfill(str, width) ==
              IF Len(str) >= width THEN str ELSE [i \in 1..(width - Len(str)) |-> "0"] \o str
      IN  IF amount_int < 0 THEN Raised("PAYMENT")
          ELSE IF currency.contract_address = << >>
          THEN Returned([to |-> destination, value |-> <<"0", "x">> \o HexOf(amount_int), data |-> << >>])
          ELSE Returned([to |-> currency.contract_address,
                         value |-> << >>,
                         data |-> <<"0", "x">> \o TRANSFER_METHOD_ID
                                  \o zfill(SubSeq(destination, 3, Len(destination)), 64)
                                  \o zfill(HexOf(amount_int), 64)])

\* the bytes of a hex string, as the node stores the data of a signed
\* transaction and web3 hands it back (HexBytes)
FromHex(s) == lower(SubSeq(s, 3, Len(s)))

\* b[from:to]; len(b) is Len(b) \div 2
Slice(b, from, to) ==
    SubSeq(b, 2 * from + 1, IF to < (Len(b) \div 2) THEN 2 * to ELSE Len(b))

\* HexBytes.hex(): with an "0x" in front before hexbytes 1.0, without it
\* since; the repository pins neither
HexBytesHex(b, prefixed) == IF prefixed THEN <<"0", "x">> \o b ELSE b

\* int(s, 16), which accepts a leading 0x
IntOf16(s) ==
    LET body == IF Len(s) >= 2 /\ SubSeq(s, 1, 2) = <<"0", "x">> THEN SubSeq(s, 3, Len(s)) ELSE s
        digit(c) == CHOOSE k \in 0..15 : HexDigits[k + 1] = c
        value[i \in 0..Len(body)] ==
            IF i = 0 THEN 0 ELSE value[i - 1] * 16 + digit(body[i])
    IN  value[Len(body)]

\* check_transaction's actual_dst
actual_dst(trx_data, prefixed) == <<"0", "x">> \o lower(HexBytesHex(Slice(trx_data, 16, 36), prefixed))

\* check_transaction's amount, token branch
actual_amount(trx_data, prefixed) ==
    IntOf16(HexBytesHex(Slice(trx_data, 36, (Len(trx_data) \div 2)), prefixed))

CHAIN_NUM_RETRIES_AND_ONE == 10 + 1

\* CHAIN_NUM_RETRIES
CHAIN_NUM_RETRIES == 10

\* EthereumLikeNetwork.get_transaction: rpc[k] is what the k-th call of
\* web3.eth.get_transaction answers, raised when it raises; attempts counts
\* the calls made
get_transaction(tx_id, rpc) ==
    LET loop[num_retries \in 0..CHAIN_NUM_RETRIES] ==
            LET attempt == CHAIN_NUM_RETRIES - num_retries + 1
            IN  IF num_retries > 0
                THEN IF ~rpc[attempt].raised
                     THEN [ok |-> TRUE, code |-> "OK", value |-> rpc[attempt],
                           attempts |-> attempt]
                     ELSE loop[num_retries - 1]
                ELSE [ok |-> FALSE, code |-> "TRX_CHECK_ERROR", value |-> << >>,
                      attempts |-> CHAIN_NUM_RETRIES]
    IN  IF \/ Len(tx_id) # 66
           \/ SubSeq(tx_id, 1, 2) # <<"0", "x">>
           \/ ~_check_hex(SubSeq(tx_id, 3, Len(tx_id)))
        THEN [ok |-> FALSE, code |-> "WRONG_TXID", value |-> << >>, attempts |-> 0]
        ELSE loop[CHAIN_NUM_RETRIES]

\* EthereumLikeNetwork._get_transaction_receipt, with the calls of
\* web3.eth.get_transaction_receipt
_get_transaction_receipt(tx_id, rpc) ==
    LET loop[num_retries \in 0..CHAIN_NUM_RETRIES] ==
            LET attempt == CHAIN_NUM_RETRIES - num_retries + 1
            IN  IF num_retries > 0
                THEN IF ~rpc[attempt].raised
                     THEN [ok |-> TRUE, code |-> "OK", value |-> rpc[attempt],
                           attempts |-> attempt]
                     ELSE loop[num_retries - 1]
                ELSE [ok |-> FALSE, code |-> "TRX_CHECK_ERROR", value |-> << >>,
                      attempts |-> CHAIN_NUM_RETRIES]
    IN  loop[CHAIN_NUM_RETRIES]

get_transaction_status_strict(latest_block, num_confirmations, tx_id, rpc) ==
    LET lookup == get_transaction(tx_id, rpc)
        transaction == lookup.value
    IN  IF latest_block = NullNum \/ latest_block = 0 THEN "pending"
        ELSE IF ~lookup.ok THEN "failed"
        ELSE IF transaction.blockNumber = NullNum THEN "pending"
        ELSE IF transaction.blockHash = NullStr THEN "failed"
        ELSE IF latest_block - transaction.blockNumber > num_confirmations
        THEN "confirmed"
        ELSE "pending"

\* EthereumLikeNetwork.get_transaction_status; latest_block is the cache
\* update_latest_block fills, NullNum while it is None
get_transaction_status(latest_block, num_confirmations, tx_id, rpc) ==
    LET lookup == get_transaction(tx_id, rpc)
        transaction == lookup.value
    IN  IF latest_block = NullNum \/ latest_block = 0 THEN "pending"
        ELSE IF ~lookup.ok THEN "failed"
        ELSE IF transaction.blockNumber = NullNum THEN "pending"
        ELSE IF transaction.blockHash = NullStr THEN "failed"
        ELSE IF latest_block - transaction.blockNumber >= num_confirmations
        THEN "confirmed"
        ELSE "pending"

\* the APIError code and the check that raised it; OK and "none" when
\* check_transaction returns
check_transaction(transaction, exp_dst, exp_curr_name, exp_amount, prefixed) ==
    IF exp_curr_name \notin DOMAIN Currencies THEN [code |-> "UNKNOWN_CURRENCY", at |-> "currency"]
    ELSE
      LET exp_currency == Currencies[exp_curr_name]
          amount_dec == exp_amount * (10 ^ exp_currency.decimals)
          to == transaction.to
          trx_data == transaction.input
      IN  IF ~transaction.found THEN [code |-> "TRX_CHECK_ERROR", at |-> "lookup"]
          ELSE IF transaction.status = 0 THEN [code |-> "TRX_CHECK_ERROR", at |-> "receipt"]
          ELSE IF to = << >> THEN [code |-> "TRX_CHECK_ERROR", at |-> "to"]
          ELSE IF exp_currency.contract_address = << >>
          THEN IF to # exp_dst THEN [code |-> "TRX_CHECK_ERROR", at |-> "destination"]
               ELSE IF amount_dec # transaction.value THEN [code |-> "TRX_CHECK_ERROR", at |-> "amount"]
               ELSE [code |-> "OK", at |-> "none"]
          ELSE IF lower(to) # lower(exp_currency.contract_address)
          THEN [code |-> "TRX_CHECK_ERROR", at |-> "contract"]
          ELSE IF (Len(trx_data) \div 2) # 68 THEN [code |-> "TRX_CHECK_ERROR", at |-> "length"]
          ELSE IF lower(HexBytesHex(Slice(trx_data, 0, 4), prefixed)) # lower(<<"0", "x">> \o TRANSFER_METHOD_ID)
          THEN [code |-> "TRX_CHECK_ERROR", at |-> "selector"]
          ELSE IF actual_dst(trx_data, prefixed) = lower(exp_dst)
          THEN [code |-> "TRX_CHECK_ERROR", at |-> "destination"]
          ELSE IF amount_dec # actual_amount(trx_data, prefixed)
          THEN [code |-> "TRX_CHECK_ERROR", at |-> "amount"]
          ELSE [code |-> "OK", at |-> "none"]

(***************************************************************************)
(* Inputs the drivers supply                                               *)
(***************************************************************************)
Recipients == {"alice", "bob", "carol", "dave"}

Networks == {"Polygon", "Ethereum"}

Amounts == {0, 100}

PaidAmounts == {100}

CircleChannels == { c \in ChannelIds : <<c, "Circle">> \in ProviderAccountRows }

(***************************************************************************)
(* Spec: every handler in a transaction of its own                         *)
(***************************************************************************)
WithinBounds(o) ==
    /\ Len(o.tr) <= MaxTransfers
    /\ \A t \in 1..Len(o.tr) : Len(o.tr[t].payments) <= MaxPayments
    /\ \A t \in 1..Len(o.nt) :
          /\ o.nt[t].TransferComplete <= MaxNotifications
          /\ o.nt[t].PayoutRequest <= MaxNotifications

Call(op, t, o) ==
    [op |-> op, t |-> t, idx |-> o.upd_idx, status |-> o.upd_status, res |-> o.res]

\* the handler ran; on OK its transaction is committed, on an error it is
\* rolled back
Finish(o, op, t) ==
    /\ WithinBounds(o)
    /\ transfers' = IF o.res = "OK" THEN o.tr ELSE transfers
    /\ sent' = IF o.res = "OK" THEN o.nt ELSE sent
    /\ last' = Call(op, t, o)
    /\ durable' = transfers'
    /\ UNCHANGED <<open, tasks, foreign, sweep, calc, payout_provider, accounts, creating, chain, pg, removed>>

(***************************************************************************)
(* The shared connection: what a handler's end does to it                  *)
(***************************************************************************)
\* asyncio.create_task calls the handler made through send_notification
Created(o) ==
    LET NotificationCount(nt) ==
            LET upto[i \in 0..Len(nt)] ==
                    IF i = 0 THEN 0
                    ELSE upto[i - 1] + nt[i].TransferComplete + nt[i].PayoutRequest
            IN  upto[Len(nt)]
    IN  IF NotificationCount(o.nt) > NotificationCount(sent)
        THEN NotificationCount(o.nt) - NotificationCount(sent) ELSE 0

Request(op, o, code, dirty) ==
    LET FreeId == CHOOSE i \in 1..(MaxRequests + 1) : \A r \in open : r.id # i
    IN  [id |-> FreeId, op |-> op, res |-> o.res, code |-> code, dirty |-> dirty]

Flushed(requests) == { [r EXCEPT !.dirty = FALSE] : r \in requests }

\* Database.commit(): connection.commit() makes everything pending durable
DatabaseCommit(view, by) ==
    /\ durable' = view
    /\ transfers' = view
    /\ foreign' = { [op |-> r.op, res |-> r.res, by |-> by] : r \in { r \in open : r.dirty } }

\* Database.rollback(): connection.rollback() drops everything pending
DatabaseRollback ==
    /\ durable' = durable
    /\ transfers' = durable
    /\ foreign' = {}

CanAdmit(o) ==
    /\ WithinBounds(o)
    /\ Cardinality(open) < MaxRequests
    /\ tasks.new + tasks.sending + Created(o) <= MaxTasks

\* a handler behind api_method that leaves commit and rollback to it
Leave(o, op, t) ==
    /\ CanAdmit(o)
    /\ transfers' = o.tr
    /\ sent' = o.nt
    /\ tasks' = [tasks EXCEPT !.new = @ + Created(o)]
    /\ open' = open \cup {Request(op, o, IF o.res = "OK" THEN 200 ELSE 500, o.tr # transfers)}
    /\ last' = Call(op, t, o)
    /\ foreign' = {}
    /\ UNCHANGED <<durable, sweep, calc, payout_provider, accounts, creating, chain, pg, removed>>

\* stripe_webhook.webhook_post: commits after the processor, swallows its
\* exception without a rollback, and answers with a tuple either way
LeaveStripe(o, op, t) ==
    /\ CanAdmit(o)
    /\ sent' = o.nt
    /\ tasks' = [tasks EXCEPT !.new = @ + Created(o)]
    /\ last' = Call(op, t, o)
    /\ IF o.res = "OK"
       THEN /\ DatabaseCommit(o.tr, op)
            /\ open' = Flushed(open) \cup {Request(op, o, 200, FALSE)}
       ELSE /\ transfers' = o.tr
            /\ foreign' = {}
            /\ open' = open \cup {Request(op, o, 200, o.tr # transfers)}
            /\ UNCHANGED durable
    /\ UNCHANGED <<sweep, calc, payout_provider, accounts, creating, chain, pg, removed>>

\* circle_webhook.post_webhook: commits after the processor, rolls back on an
\* exception, and answers 200 either way
LeaveCircle(o, op, t) ==
    /\ CanAdmit(o)
    /\ last' = Call(op, t, o)
    /\ IF o.res = "OK"
       THEN /\ DatabaseCommit(o.tr, op)
            /\ sent' = o.nt
            /\ tasks' = [tasks EXCEPT !.new = @ + Created(o)]
       ELSE /\ DatabaseRollback
            /\ sent' = SubSeq(sent, 1, Len(durable))
            /\ UNCHANGED tasks
    /\ open' = Flushed(open) \cup {Request(op, o, 200, FALSE)}
    /\ UNCHANGED <<sweep, calc, payout_provider, accounts, creating, chain, pg, removed>>

\* the end of a handler: tx = "own" runs it in a transaction of its own,
\* tx = "shared" on the shared connection, after the manner of its endpoint
End(tx, endpoint, o, op, t) ==
    IF tx = "own" THEN Finish(o, op, t)
    ELSE CASE endpoint = "stripe" -> LeaveStripe(o, op, t)
           [] endpoint = "circle" -> LeaveCircle(o, op, t)
           [] OTHER -> Leave(o, op, t)

(***************************************************************************)
(* Handlers                                                                *)
(***************************************************************************)
StartPaymentStep(tx, op, recipient, sender_channel, payment_type, currency, amount, ok) ==
    LET routes == get_cheapest_route(recipient, sender_channel, payment_type, currency, amount)
    IN  IF routes = {}
        THEN End(tx, "api", Outcome(transfers, sent, "INTERNAL"), op, 0)
        ELSE \E route \in routes :
               End(tx, "api",
                   start_payment(transfers, sent, recipient, payment_type, amount, route, ok),
                   op, Len(transfers) + 1)

BeginCardTransfer(tx) ==
    \E recipient \in Recipients, provider_ok \in BOOLEAN :
        StartPaymentStep(tx, "begin_card_transfer", recipient, NullStr, "card",
                         NullStr, NullNum, provider_ok)

BeginCryptoTransfer(tx) ==
    \E recipient \in Recipients, network \in Networks, amount \in Amounts :
        StartPaymentStep(tx, "begin_crypto_transfer", recipient, NullStr,
                         CryptoType(network), "USDC", amount, TRUE)

\* circle_api.start_transfer_internal: the sender pays from a Circle wallet
CircleStartTransfer(tx) ==
    \E recipient \in Recipients, sender \in CircleChannels, amount \in Amounts :
        /\ PayoutChannel[sender].creator_id # recipient
        /\ StartPaymentStep(tx, "circle_start_transfer", recipient, sender,
                            CryptoType(PayoutChannel[sender].network), "USDC", amount, TRUE)

TransferSubmitCrypto(tx) ==
    \E t \in 1..Len(transfers), transaction_id \in TxIds, check_ok \in BOOLEAN :
        End(tx, "api", transfer_submit_crypto(transfers, sent, t, transaction_id, check_ok),
               "transfer_submit_crypto", t)

AdminSubmitPayout(tx) ==
    \E t \in 1..Len(transfers), admin \in {"relay", "alice"}, provider_fee1 \in {0, 1},
       external_id \in TxIds, validate_ok \in BOOLEAN :
        End(tx, "api", admin_submit_payout(transfers, sent, t, admin, provider_fee1, 0, 1, 99,
                                   external_id, validate_ok),
               IF TransferFound(transfers, t) /\ transfers[t].remittance_user = admin
               THEN "submit_payout" ELSE "admin_submit_payout",
               t)

AdminCancelPayout(tx) ==
    \E t \in 1..Len(transfers) :
        End(tx, "api", admin_cancel_payout(transfers, sent, t), "cancel_payout", t)

\* Stripe reports on the checkout sessions it opened for a transfer
StripeCheckoutCompleted(tx) ==
    \E t \in 1..Len(transfers), amount \in PaidAmounts :
        LET found == StripePaymentsBySession(transfers, ("cs_" \o ToString(t)))
        IN  IF found = {}
            THEN End(tx, "stripe", Outcome(transfers, sent, "INTERNAL"), "checkout_session_completed", t)
            ELSE \E x \in found :
                   End(tx, "stripe", checkout_session_completed(transfers, sent, x, amount,
                                                     ("pi_" \o ToString(t))),
                          "checkout_session_completed", x[1])

StripeCheckoutExpired(tx) ==
    \E t \in 1..Len(transfers) :
        LET found == StripePaymentsBySession(transfers, ("cs_" \o ToString(t)))
        IN  IF found = {}
            THEN End(tx, "stripe", Outcome(transfers, sent, "INTERNAL"), "checkout_session_expired", t)
            ELSE \E x \in found :
                   End(tx, "stripe", checkout_session_expired(transfers, sent, x),
                          "checkout_session_expired", x[1])

StripePayoutPaid(tx) ==
    \E t \in 1..Len(transfers) :
        End(tx, "stripe", Outcome(stripe_payment_intents_completed(transfers, {("pi_" \o ToString(t))}),
                       sent, "OK"),
               "payout_paid", t)

\* Mercuryo reports on the transfers whose payment page it served
MercuryoKnows(t) ==
    /\ Len(transfers[t].payments) > 0
    /\ transfers[t].payments[1].provider = "Mercuryo"

MercuryoBuy(tx) ==
    \E t \in 1..Len(transfers), event_status \in MercuryoBuyStatuses,
       fiat_currency \in {"USD", "EUR"}, fiat_amount \in PaidAmounts \cup {NullNum},
       partner_fee \in {NullNum, TransferMoleFee} :
        /\ MercuryoKnows(t)
        /\ End(tx, "api", process_buy_event(transfers, sent, t, event_status, fiat_currency,
                                    fiat_amount, partner_fee),
                  "process_buy_event", t)

MercuryoWithdraw(tx) ==
    \E t \in 1..Len(transfers), event_status \in MercuryoWithdrawStatuses,
       amount \in PaidAmounts :
        /\ MercuryoKnows(t)
        /\ End(tx, "api", process_withdraw_event(transfers, sent, t, event_status, "USDC", amount),
                  "process_withdraw_event", t)

\* Circle reports on the outbound transactions it sent for a transfer (refId)
CircleOutbound(tx) ==
    \E t \in 1..Len(transfers), amount \in PaidAmounts, txHash \in TxIds \cup {NullStr} :
        /\ Len(transfers[t].payments) > 0
        /\ transfers[t].payments[1].sender_channel_id \in CircleChannels
        /\ End(tx, "circle", process_outbound_transaction(transfers, sent, t, amount, "USDC", txHash),
                  "process_outbound_transaction", t)

\* Circle reports funds arriving at a Circle wallet from outside
CircleInbound(tx) ==
    \E channel_id \in CircleChannels, amount \in PaidAmounts, txHash \in TxIds :
        End(tx, "circle", process_inbound_transaction(transfers, sent, channel_id, amount, "USDC", txHash),
               "process_inbound_transaction", Len(transfers) + 1)

\* one payment of one sweep of TransactionMonitor.process_network
ChainMonitor(tx) ==
    \E network \in CRYPTO_NETWORK_NAMES, trx_status \in TransactionStatuses :
        \E x \in get_submitted_crypto_payments(transfers, network) :
            End(tx, "api", _process_pending_payment(transfers, sent, x, trx_status),
                   "chain_monitor", x[1])

NoCall == [op |-> "none", t |-> 0, idx |-> -1, status |-> NullStr, res |-> "OK"]

\* TransactionMonitor.run between two sweeps, nothing pending on its connection
Asleep ==
    [pc |-> "sleep", networks |-> << >>, todo |-> {}, wrote |-> {}, orphaned |-> {},
     reported |-> << >>]

\* no block seen on any network, no EthereumLikeNetwork object updated yet
\* (latest_block: Optional[BlockNumber] = None)
Unobserved ==
    [head |-> [n \in Networks |-> 0], blockNumber |-> [e \in TxIds |-> NullNum],
     unknown |-> {}, down |-> {}, latest_block |-> [n \in CRYPTO_NETWORK_NAMES |-> NullNum]]

\* a connection outside a transaction
NoTxn ==
    [pc |-> "idle", channel_id |-> 0, inserted |-> FALSE, was_removed |-> FALSE,
     todo |-> << >>, rows |-> << >>]

\* empty tables, idle connections
NoRows == [payout_channel |-> << >>, provider_account |-> << >>, txn |-> [w \in Workers |-> NoTxn]]

Init ==
    /\ payout_provider = ProviderParams
    /\ transfers = << >>
    /\ sent = << >>
    /\ last = NoCall
    /\ durable = << >>
    /\ open = {}
    /\ tasks = [new |-> 0, sending |-> 0]
    /\ foreign = {}
    /\ sweep = Asleep
    /\ calc = [fn |-> "none"]
    /\ accounts = [payout_channel |-> << >>, provider_account |-> {}, notifications |-> << >>]
    /\ creating = [w \in Workers |-> NoCall]
    /\ chain = Unobserved
    /\ pg = NoRows
    /\ removed = {}

Next ==
    \/ BeginCardTransfer("own")
    \/ BeginCryptoTransfer("own")
    \/ CircleStartTransfer("own")
    \/ TransferSubmitCrypto("own")
    \/ AdminSubmitPayout("own")
    \/ AdminCancelPayout("own")
    \/ StripeCheckoutCompleted("own")
    \/ StripeCheckoutExpired("own")
    \/ StripePayoutPaid("own")
    \/ MercuryoBuy("own")
    \/ MercuryoWithdraw("own")
    \/ CircleOutbound("own")
    \/ CircleInbound("own")
    \/ ChainMonitor("own")

Spec == Init /\ [][Next]_vars

(***************************************************************************)
(* SpecTx: requests, notification tasks and webhooks on the one connection *)
(* of class Database.  A request is the handler body, run up to the point  *)
(* where it hands its response to the middleware, and then api_method's    *)
(* commit or rollback; the event loop may run other coroutines in between. *)
(* The chain monitor is a process of its own with a connection of its own  *)
(* and takes no part here.                                                 *)
(***************************************************************************)
\* api_method after call_next: commit on status 200, rollback otherwise
MiddlewareEnd ==
    \E r \in open :
        /\ open' = Flushed(open \ {r})
        /\ last' = [NoCall EXCEPT !.op = "api_method", !.res = r.res]
        /\ IF r.code = 200
           THEN /\ durable' = transfers
                /\ foreign' = { [op |-> q.op, res |-> q.res, by |-> r.op] :
                                   q \in { p \in open : p.dirty } \ {r} }
                /\ UNCHANGED <<transfers, sent>>
           ELSE /\ DatabaseRollback
                /\ sent' = SubSeq(sent, 1, Len(durable))
        /\ UNCHANGED <<tasks, sweep, calc, payout_provider, accounts, creating, chain, pg, removed>>

\* notification_task up to its first await: INSERT, Database.commit()
NotificationTaskInsert ==
    /\ tasks.new > 0
    /\ tasks' = [new |-> tasks.new - 1, sending |-> tasks.sending + 1]
    /\ DatabaseCommit(transfers, "notification_task")
    /\ open' = Flushed(open)
    /\ last' = [NoCall EXCEPT !.op = "notification_task"]
    /\ UNCHANGED <<sent, sweep, calc, payout_provider, accounts, creating, chain, pg, removed>>

\* notification_task after notification.send: the second Database.commit()
NotificationTaskDone ==
    /\ tasks.sending > 0
    /\ tasks' = [tasks EXCEPT !.sending = @ - 1]
    /\ DatabaseCommit(transfers, "notification_task")
    /\ open' = Flushed(open)
    /\ last' = [NoCall EXCEPT !.op = "notification_task"]
    /\ UNCHANGED <<sent, sweep, calc, payout_provider, accounts, creating, chain, pg, removed>>

NextTx ==
    \/ BeginCardTransfer("shared")
    \/ BeginCryptoTransfer("shared")
    \/ CircleStartTransfer("shared")
    \/ TransferSubmitCrypto("shared")
    \/ AdminSubmitPayout("shared")
    \/ AdminCancelPayout("shared")
    \/ StripeCheckoutCompleted("shared")
    \/ StripeCheckoutExpired("shared")
    \/ StripePayoutPaid("shared")
    \/ MercuryoBuy("shared")
    \/ MercuryoWithdraw("shared")
    \/ CircleOutbound("shared")
    \/ CircleInbound("shared")
    \/ MiddlewareEnd
    \/ NotificationTaskInsert
    \/ NotificationTaskDone

SpecTx == Init /\ [][NextTx]_vars

(***************************************************************************)
(* SpecSweep: TransactionMonitor.run, a process of its own with a          *)
(* connection of its own, over a ledger of crypto payments that wait for   *)
(* their transactions.  transfers is what the monitor's connection sees,   *)
(* durable what is committed.                                              *)
(***************************************************************************)
MaxSweepTransfers == 2

\* blocks a chain grows by while the monitor runs
MaxNewBlocks == 1

\* the block the mined transactions of the ledger are in; the chains start
\* one block short of confirming them
MinedAt == 1

\* num_confirmations of the networks of CryptoNetworks
num_confirmations(network) ==
    CASE network = "Ethereum" -> 12
      [] network = "Polygon" -> 200
      [] OTHER -> 20

\* the ledgers of MaxSweepTransfers submitted transfers, each as
\* begin_crypto_transfer followed by transfer_submit_crypto leaves it
SubmittedLedgers ==
    LET CryptoStarts ==
            { y \in Recipients \X Networks \X
                      UNION { get_cheapest_route(r, NullStr, CryptoType(n), "USDC", 100) :
                                 r \in Recipients, n \in Networks } :
                y[3] \in get_cheapest_route(y[1], NullStr, CryptoType(y[2]), "USDC", 100) }
        SubmittedTransfer(tr, nt, recipient, network, route, transaction_id) ==
            LET started == start_payment(tr, nt, recipient, CryptoType(network), 100, route, TRUE)
            IN  transfer_submit_crypto(started.tr, started.nt, Len(tr) + 1, transaction_id, TRUE)
        upto[n \in 0..MaxSweepTransfers] ==
            IF n = 0 THEN { Outcome(<< >>, << >>, "OK") }
            ELSE { SubmittedTransfer(o.tr, o.nt, y[1], y[2], y[3], "0xt" \o ToString(n)) :
                     o \in upto[n - 1], y \in CryptoStarts }
    IN  upto[MaxSweepTransfers]

InitSweep ==
    /\ payout_provider = ProviderParams
    /\ removed = {}
    /\ \E o \in SubmittedLedgers :
          /\ o.res = "OK"
          /\ transfers = o.tr
          /\ durable = o.tr
          /\ sent = o.nt
    /\ last = NoCall
    /\ open = {}
    /\ tasks = [new |-> 0, sending |-> 0]
    /\ foreign = {}
    /\ sweep = Asleep
    /\ calc = [fn |-> "none"]
    /\ accounts = [payout_channel |-> << >>, provider_account |-> {}, notifications |-> << >>]
    /\ creating = [w \in Workers |-> NoCall]
    /\ \E b \in [TxIds -> {NullNum, MinedAt}], u \in SUBSET TxIds, d \in SUBSET Networks :
          /\ \A e \in u : b[e] = NullNum
          /\ chain = [Unobserved EXCEPT !.head = [n \in Networks |-> MinedAt + num_confirmations(n) - 1],
                                        !.blockNumber = b, !.unknown = u, !.down = d]
    /\ pg = NoRows

\* run: cur = Database.begin(), and into _iteration
RunBegin ==
    /\ sweep.pc = "sleep"
    /\ sweep' = [sweep EXCEPT !.pc = "iterate", !.networks = <<"Polygon", "Ethereum", "Avalanche C-Chain", "Base", "BSC">>,
                              !.reported = << >>]
    /\ UNCHANGED <<transfers, sent, last, durable, open, tasks, foreign, calc, payout_provider, accounts, creating, chain, pg, removed>>

\* run's except branch: the exception is logged and the loop sleeps; nothing
\* rolls the connection back, so what the sweep wrote stays pending on it
RunExcept == [sweep EXCEPT !.pc = "sleep", !.networks = << >>, !.todo = {},
                           !.orphaned = @ \cup sweep.wrote, !.wrote = {}]

\* process_network up to its loop: the query, and update_latest_block, whose
\* RPC call (web3.eth.block_number) raises when the node is down
ProcessNetwork ==
    /\ sweep.pc = "iterate"
    /\ sweep.todo = {}
    /\ sweep.networks # << >>
    /\ LET network_name == Head(sweep.networks)
           pending_payments == get_submitted_crypto_payments(transfers, network_name)
       IN  IF pending_payments = {}
           THEN /\ sweep' = [sweep EXCEPT !.networks = Tail(@)]
                /\ chain' = chain
           ELSE IF network_name \in chain.down
           THEN /\ sweep' = RunExcept
                /\ chain' = chain
           ELSE /\ sweep' = [sweep EXCEPT !.networks = Tail(@), !.todo = pending_payments]
                /\ chain' = [chain EXCEPT !.latest_block[network_name] = chain.head[network_name]]
    /\ UNCHANGED <<transfers, sent, last, durable, open, tasks, foreign, calc, payout_provider, accounts, creating, pg, removed>>

\* one turn of process_network's loop: _process_pending_payment
ProcessPendingPayment ==
    /\ sweep.pc = "iterate"
    /\ \E x \in sweep.todo :
       \E payment \in {transfers[x[1]].payments[x[2] + 1]} :
       \E network \in { n \in CRYPTO_NETWORK_NAMES : CryptoType(n) = payment.payment_type } :
       \* the 66 characters of the transaction id, and what the calls of
       \* web3.eth.get_transaction answer: the transaction as the chain has it,
       \* or TransactionNotFound each time
       \E tx_id \in {<<"0", "x">> \o [i \in 1..64 |-> IF i = 64 /\ payment.external_id = "0xt2" THEN "2" ELSE "1"]},
          rpc \in {[i \in 1..CHAIN_NUM_RETRIES |->
                      [raised |-> payment.external_id \in chain.unknown,
                       blockNumber |-> chain.blockNumber[payment.external_id],
                       blockHash |-> IF chain.blockNumber[payment.external_id] = NullNum
                                     THEN NullStr ELSE "0xbh"]]} :
       \E trx_status \in {get_transaction_status(chain.latest_block[network], num_confirmations(network), tx_id, rpc)} :
       \E o \in {_process_pending_payment(transfers, sent, x, trx_status)} :
          /\ transfers' = o.tr
          /\ sent' = o.nt
          /\ last' = Call("chain_monitor", x[1], o)
          /\ sweep' = IF o.res = "OK"
                      THEN [sweep EXCEPT !.todo = @ \ {x},
                                         !.wrote = IF o.tr # transfers THEN @ \cup {x} ELSE @,
                                         !.reported = <<x, trx_status>>]
                      ELSE [RunExcept EXCEPT !.orphaned = @ \cup {x}]
    /\ UNCHANGED <<durable, open, tasks, foreign, calc, payout_provider, accounts, creating, chain, pg, removed>>

\* run after _iteration: Database.commit() makes everything pending on the
\* connection durable
RunCommit ==
    /\ sweep.pc = "iterate"
    /\ sweep.todo = {}
    /\ sweep.networks = << >>
    /\ durable' = transfers
    /\ sweep' = [sweep EXCEPT !.pc = "sleep", !.wrote = {}]
    /\ last' = [NoCall EXCEPT !.op = "run_commit"]
    /\ UNCHANGED <<transfers, sent, open, tasks, foreign, calc, payout_provider, accounts, creating, chain, pg, removed>>

\* a network's chain grows by a block
MineBlock ==
    /\ \E n \in Networks :
          /\ chain.head[n] < MinedAt + num_confirmations(n) - 1 + MaxNewBlocks
          /\ chain' = [chain EXCEPT !.head[n] = @ + 1]
    /\ UNCHANGED <<transfers, sent, last, durable, open, tasks, foreign, sweep, calc, payout_provider, accounts, creating, pg, removed>>

\* the node of a network answers again
NodeRecovers ==
    /\ \E n \in chain.down : chain' = [chain EXCEPT !.down = @ \ {n}]
    /\ UNCHANGED <<transfers, sent, last, durable, open, tasks, foreign, sweep, calc, payout_provider, accounts, creating, pg, removed>>

NextSweep ==
    \/ RunBegin
    \/ ProcessNetwork
    \/ ProcessPendingPayment
    \/ RunCommit
    \/ MineBlock
    \/ NodeRecovers

SpecSweep == InitSweep /\ [][NextSweep]_vars

\* the monitor's loop never stops (while True, asyncio.sleep(30)) and the
\* chains grow; nothing makes a node that is down answer again
SpecSweepFair ==
    /\ SpecSweep
    /\ WF_vars(RunBegin \/ ProcessNetwork \/ ProcessPendingPayment \/ RunCommit)
    /\ WF_vars(MineBlock)

(***************************************************************************)
(* SpecRoute: transfers started while payout channels are removed and      *)
(* attached again (payout/payout_channel.py, payout/account_factory.py,    *)
(* payment_processor.py).  Every request runs in a transaction of its own. *)
(***************************************************************************)
\* remove_payout_channel behind DELETE /account: AccountFactory.get_account
\* finds the channel only while it is not removed, then PayoutChannel.remove
\* sets removed = True.  The channels removed are a recipient's bank account,
\* a recipient's wallet and the proxy wallet of the country.
PayoutChannelRemove ==
    \E channel_id \in {"ch_alice_bank", "ch_bob_wallet", "ch_relay_wallet"} \ removed :
        /\ removed' = removed \cup {channel_id}
        /\ last' = [NoCall EXCEPT !.op = "remove_payout_channel"]
        /\ UNCHANGED <<transfers, sent, durable, open, tasks, foreign, sweep, calc, payout_provider, accounts, creating, chain, pg>>

\* the channel attached again with the same data:
\* AccountFactory.try_restore_payout_channel sets removed = False
PayoutChannelRestore ==
    \E channel_id \in removed :
        /\ removed' = removed \ {channel_id}
        /\ last' = [NoCall EXCEPT !.op = "try_restore_payout_channel"]
        /\ UNCHANGED <<transfers, sent, durable, open, tasks, foreign, sweep, calc, payout_provider, accounts, creating, chain, pg>>

NextRoute ==
    \/ BeginCardTransfer("own")
    \/ BeginCryptoTransfer("own")
    \/ CircleStartTransfer("own")
    \/ PayoutChannelRemove
    \/ PayoutChannelRestore

SpecRoute == Init /\ [][NextRoute]_vars

(***************************************************************************)
(* SpecFn: the functions of the library, each applied to inputs drawn from *)
(* bounded sets.  calc holds the call: its arguments and, once the         *)
(* function has run (done), its result.                                    *)
(***************************************************************************)
\* a transaction as the chain holds it: the transfer create_transaction
\* encodes, the same data sent to another contract, a call with other data,
\* or none: no node returned the transaction within the retries
OnChain(shape, paid, amount) ==
    LET \* what get_transaction and _get_transaction_receipt hand back for a
        \* transaction a wallet signed from create_transaction's dict
        Mined(tx, receipt_status) ==
            [found |-> TRUE, to |-> tx.to, input |-> FromHex(tx.data),
             value |-> IF tx.value = << >> THEN 0 ELSE IntOf16(tx.value),
             status |-> receipt_status]
        signed == create_transaction(paid, "USDC", [coefficient |-> amount, exponent |-> 0]).value
    IN  CASE shape = "transfer" -> Mined(signed, 1)
          [] shape = "reverted" -> Mined(signed, 0)
          [] shape = "other contract" -> Mined([signed EXCEPT !.to = paid], 1)
          [] shape = "other call" ->
                Mined([signed EXCEPT !.data = SubSeq(signed.data, 1, Len(signed.data) - 2)], 1)
          [] OTHER -> [found |-> FALSE, to |-> << >>, input |-> << >>, value |-> 0, status |-> 0]

\* the calls: strings offered as wallet addresses have the body one
\* character short, exact and one character long, with digits, letters of
\* both cases and letters past f; amounts are whole units of the currency
InitFn ==
    LET Patterned(c1, c2, k, n) == [i \in 1..n |-> IF i <= k THEN c1 ELSE c2]
        BodyChars == {"0", "9", "a", "f", "A", "F", "g", "G"}
        AddressInputs ==
            { prefix \o Patterned(c1, c2, k, n) :
                prefix \in {<<"0", "x">>, <<"0", "X">>, <<"x", "0">>},
                c1 \in BodyChars, c2 \in BodyChars, k \in {0, 1, 20}, n \in {39, 40, 41} }
        Destinations == { a \in AddressInputs : check_wallet_address(a).ok }
        PaidTo == { <<"0", "x">> \o Patterned(c1, c2, 20, 40) : c1 \in {"9", "A"}, c2 \in {"f", "0"} }
        StoredAddresses == { check_wallet_address(a).value : a \in PaidTo }
        Shapes == {"transfer", "reverted", "other contract", "other call", "not mined"}
        RouteRecipients == Creators \cup ChannelIds
        RoutePaymentTypes == {"card", "onramp", CryptoType("Polygon"), CryptoType("Ethereum")}
        DecimalAmounts ==
            { [coefficient |-> k, exponent |-> 0] : k \in {-1, 0, 1, 100, 255, 2000} }
            \cup { [coefficient |-> k, exponent |-> -7] : k \in {-5, 5, 10, 1234567} }
        Fresh == NewPayment(0, RouteStep(NullStr, <<"ch_bob_wallet", "Polygon">>, CryptoType("Polygon")), "USDC")
        Payments == {Fresh, [Fresh EXCEPT !.total_amount = 100, !.to_usd_rate = 1]}
        Patches ==
            { [NoPatch EXCEPT !.status = st, !.total_amount = a, !.to_usd_rate = r,
                              !.external_id = e, !.provider_fee = f] :
                st \in {NullStr, "pending"}, a \in {NullNum, 0, 100}, r \in {NullNum, 0, 1},
                e \in {NullStr, "0xt1"}, f \in {NullNum, 0} }
        \* provider parameter tables: the fees of three providers and the
        \* bounds of two of them vary
        ParamTables ==
            { [p \in DOMAIN ProviderParams |->
                 CASE p = "Stripe"  -> [default_fee |-> fs, transfer_min_usd |-> bs[1], transfer_max_usd |-> bs[2]]
                   [] p = "Windapp" -> [default_fee |-> fw, transfer_min_usd |-> 1, transfer_max_usd |-> 1000]
                   [] p = "Polygon" -> [default_fee |-> fp, transfer_min_usd |-> bp[1], transfer_max_usd |-> bp[2]]
                   [] OTHER -> ProviderParams[p]] :
                fs \in 1..3, fw \in 1..3, fp \in 1..3,
                bs \in {<<1, 1000>>, <<50, 200>>}, bp \in {<<1, 1000>>, <<50, 200>>} }
        RouteAmounts == {<<NullStr, NullNum>>} \cup ({"USDC"} \X {0, 1, 100, 500, 2000})
        \* transfers as start_payment leaves them, direct and relayed
        Started ==
            { start_payment(<< >>, << >>, r, route.first_step.payment_type, 100, route, TRUE).tr :
                <<r, route>> \in { x \in Creators \X UNION { get_available_routes(c, NullStr) : c \in Creators } :
                                     x[2] \in get_available_routes(x[1], NullStr) } }
        ReportedStatuses == {"canceled", "failed", "expired", "rejected", "submitted", "paid out"}
        TxIdInputs ==
            { prefix \o Patterned(c1, "0", 1, n) :
                prefix \in {<<"0", "x">>, <<"0", "X">>}, c1 \in {"a", "F", "g"}, n \in {63, 64, 65} }
        \* what the node holds for a transaction: not mined, dropped from its
        \* block, or mined in block 5
        TxData ==
            { [raised |-> FALSE, blockNumber |-> NullNum, blockHash |-> NullStr],
              [raised |-> FALSE, blockNumber |-> 5, blockHash |-> NullStr],
              [raised |-> FALSE, blockNumber |-> 5, blockHash |-> "0xb5"] }
        \* the answers of one more call than the loop may make
        RpcAnswers ==
            [1..(CHAIN_NUM_RETRIES + 1) ->
                { [raised |-> r, blockNumber |-> 5, blockHash |-> "0xb5"] : r \in BOOLEAN }]
        LeadingErrors(k, tx) == [i \in 1..(CHAIN_NUM_RETRIES + 1) |-> IF i <= k THEN [tx EXCEPT !.raised = TRUE] ELSE tx]
    IN
    /\ removed = {}
    /\ transfers = << >>
    /\ sent = << >>
    /\ last = NoCall
    /\ durable = << >>
    /\ open = {}
    /\ tasks = [new |-> 0, sending |-> 0]
    /\ foreign = {}
    /\ sweep = Asleep
    /\ accounts = [payout_channel |-> << >>, provider_account |-> {}, notifications |-> << >>]
    /\ creating = [w \in Workers |-> NoCall]
    /\ chain = Unobserved
    /\ pg = NoRows
    /\ \/ /\ payout_provider = ProviderParams
          /\ \/ calc \in { [fn |-> "check_wallet_address", address |-> a,
                            done |-> FALSE, out |-> NullStr] : a \in AddressInputs }
             \/ calc \in { [fn |-> "CryptoAccountDetails", address |-> a, currency |-> c,
                            done |-> FALSE, out |-> NullStr] :
                             a \in AddressInputs, c \in {"USDC", "ETH"} }
             \/ calc \in { [fn |-> "create_transaction", destination |-> d,
                            currency_name |-> c, amount |-> n, prefixed |-> x,
                            done |-> FALSE, out |-> NullStr] :
                             d \in Destinations, c \in {"USDC", "ETH"},
                             n \in DecimalAmounts, x \in BOOLEAN }
             \/ calc \in { [fn |-> "check_transaction", shape |-> sh, paid |-> d,
                            paid_amount |-> n, exp_dst |-> e, exp_curr_name |-> c,
                            exp_amount |-> m, prefixed |-> x,
                            done |-> FALSE, out |-> NullStr] :
                             sh \in Shapes, d \in PaidTo, n \in {1, 255},
                             e \in StoredAddresses, c \in {"USDC", "ETH"},
                             m \in {1, 255}, x \in BOOLEAN }
             \* the Payment object, and its row as another request left it
             \/ calc \in { [fn |-> "update", payment |-> p, patch |-> u,
                            row |-> IF stale THEN [p EXCEPT !.status = "failed", !.provider_fee = 1] ELSE p,
                            done |-> FALSE, out |-> NullStr] :
                             p \in Payments, u \in Patches, stale \in BOOLEAN }
             \/ calc \in { [fn |-> f, tx_id |-> x, rpc |-> a, done |-> FALSE, out |-> NullStr] :
                             f \in {"get_transaction", "_get_transaction_receipt"},
                             x \in { y \in TxIdInputs : y[3] = "a" \/ Len(y) = 66 },
                             a \in RpcAnswers }
             \/ calc \in { [fn |-> "get_transaction_status", latest_block |-> lb,
                            num_confirmations |-> nc, tx_id |-> x, rpc |-> LeadingErrors(k, tx),
                            done |-> FALSE, out |-> NullStr] :
                             lb \in {NullNum, 0, 4, 6, 7, 8, 17}, nc \in {2, 12},
                             x \in { y \in TxIdInputs : y[3] # "F" /\ Len(y) = 66 },
                             k \in {0, 9, 10, 11}, tx \in TxData }
             \/ calc \in { [fn |-> "update_payment", tr |-> tr, status |-> st,
                            done |-> FALSE, out |-> NullStr] :
                             tr \in Started, st \in ReportedStatuses }
             \/ calc \in { [fn |-> "get_available_routes", recipient |-> r,
                            sender_channel |-> sc, done |-> FALSE, out |-> NullStr] :
                             r \in RouteRecipients, sc \in {NullStr, "ch_carol_circle"} }
             \/ calc \in { [fn |-> "start_payment", recipient |-> r, payment_type |-> pt,
                            currency |-> ca[1], amount |-> ca[2],
                            done |-> FALSE, out |-> NullStr] :
                             r \in RouteRecipients, pt \in RoutePaymentTypes,
                             ca \in RouteAmounts }
       \/ /\ payout_provider \in ParamTables
          /\ calc \in { [fn |-> "get_cheapest_route", recipient |-> r, payment_type |-> pt,
                         currency |-> ca[1], amount |-> ca[2],
                         done |-> FALSE, out |-> NullStr] :
                          r \in RouteRecipients, pt \in RoutePaymentTypes,
                          ca \in RouteAmounts }

\* the call returns: calc takes its result
Return(out) ==
    /\ calc' = [calc EXCEPT !.done = TRUE, !.out = out]
    /\ UNCHANGED <<transfers, sent, last, durable, open, tasks, foreign, sweep, payout_provider, accounts, creating, chain, pg, removed>>

CheckWalletAddress ==
    /\ calc.fn = "check_wallet_address"
    /\ ~calc.done
    /\ Return(check_wallet_address(calc.address))

CreateCryptoAccountDetails ==
    /\ calc.fn = "CryptoAccountDetails"
    /\ ~calc.done
    /\ Return(CryptoAccountDetails("Polygon", calc.address, calc.currency))

CreateTransaction ==
    /\ calc.fn = "create_transaction"
    /\ ~calc.done
    /\ Return(create_transaction(calc.destination, calc.currency_name, calc.amount))

CheckTransaction ==
    /\ calc.fn = "check_transaction"
    /\ ~calc.done
    /\ Return(check_transaction(OnChain(calc.shape, calc.paid, calc.paid_amount),
                                calc.exp_dst, calc.exp_curr_name, calc.exp_amount,
                                calc.prefixed))

\* UpdatePaymentParams(**params), whose validator may raise, and then
\* Payment.update with it
UpdateWithParams ==
    /\ calc.fn = "update"
    /\ ~calc.done
    /\ IF ValidPatch(calc.patch)
       THEN Return(Returned(PaymentUpdate(calc.payment, calc.patch))
                      @@ PaymentUpdateQuery(calc.row, calc.patch))
       ELSE Return([Raised("PAYMENT") EXCEPT !.value = calc.payment]
                      @@ [executed |-> FALSE, row |-> calc.row])

GetAvailableRoutes ==
    /\ calc.fn = "get_available_routes"
    /\ ~calc.done
    /\ Return(get_available_routes(calc.recipient, calc.sender_channel))

\* get_cheapest_route: the error it raises, or the route it returns
GetCheapestRoute ==
    /\ calc.fn = "get_cheapest_route"
    /\ ~calc.done
    /\ LET err == cheapest_route_error(calc.recipient, NullStr, calc.payment_type,
                                       calc.currency, calc.amount)
       IN  IF err # "none" THEN Return([err |-> err, route |-> NoRoute])
           ELSE \E route \in get_cheapest_route(calc.recipient, NullStr, calc.payment_type,
                                                calc.currency, calc.amount) :
                  Return([err |-> err, route |-> route])

\* start_payment on an empty ledger: the error it raises, the rows its
\* transaction has written by then and the route it chose
StartPayment ==
    /\ calc.fn = "start_payment"
    /\ ~calc.done
    /\ LET err == cheapest_route_error(calc.recipient, NullStr, calc.payment_type,
                                       calc.currency, calc.amount)
       IN  IF err # "none"
           THEN Return([res |-> "INTERNAL", err |-> err, tr |-> << >>, route |-> NoRoute])
           ELSE \E route \in get_cheapest_route(calc.recipient, NullStr, calc.payment_type,
                                                calc.currency, calc.amount) :
                  LET o == start_payment(<< >>, << >>, calc.recipient, calc.payment_type,
                                         calc.amount, route, TRUE)
                  IN  Return([res |-> o.res, err |-> "none", tr |-> o.tr, route |-> route])

\* the two RPC reads of the chain adapter
GetTransaction ==
    /\ calc.fn \in {"get_transaction", "_get_transaction_receipt"}
    /\ ~calc.done
    /\ Return(IF calc.fn = "get_transaction"
              THEN get_transaction(calc.tx_id, calc.rpc)
              ELSE _get_transaction_receipt(calc.tx_id, calc.rpc))

GetTransactionStatus ==
    /\ calc.fn = "get_transaction_status"
    /\ ~calc.done
    /\ Return(get_transaction_status(calc.latest_block, calc.num_confirmations,
                                     calc.tx_id, calc.rpc))

\* update_payment called for payment 0 of a started transfer
UpdatePayment ==
    /\ calc.fn = "update_payment"
    /\ ~calc.done
    /\ Return(update_payment(calc.tr, <<NoNotifications>>, 1, 0,
                             [NoPatch EXCEPT !.status = calc.status], NullNum))

NextFn ==
    \/ CheckWalletAddress
    \/ CreateCryptoAccountDetails
    \/ CreateTransaction
    \/ CheckTransaction
    \/ UpdateWithParams
    \/ UpdatePayment
    \/ GetTransaction
    \/ GetTransactionStatus
    \/ GetAvailableRoutes
    \/ GetCheapestRoute
    \/ StartPayment

SpecFn == InitFn /\ [][NextFn]_vars

(***************************************************************************)
(* SpecAttach: payout channels attached and removed through the creator    *)
(* API and the Circle handlers (payout/payout_channel.py,                  *)
(* payout/account_factory.py, routers/creator_api.py).  Every request runs *)
(* in a transaction of its own.  The data of a channel holds its currency. *)
(***************************************************************************)
MaxAccountEvents == 4

\* creator.country.payout_providers (public.country); a creator may have no
\* country yet
payout_providers(country) ==
    CASE country = "HK" -> {"Stripe", "Windapp", "Polygon", "Ethereum", "Mercuryo"}
      [] country = "DE" -> {"Polygon"}
      [] OTHER -> {}

create_payout_channel_always_inserts(rows, creator, channel_type, data, currency) ==
    { [rows |-> Append(rows, [creator_id |-> creator, type |-> channel_type, data |-> data,
                              currency |-> currency, removed |-> FALSE]),
       channel_id |-> Len(rows) + 1] }

\* create_payout_channel: try_restore_payout_channel's UPDATE takes every row
\* of the creator with this type and data and fetchone() returns one of them;
\* with none, INSERT ... ON CONFLICT DO NOTHING, and channel_id 0 stands for
\* the APIError raised when nothing was inserted
create_payout_channel(rows, creator, channel_type, data, currency) ==
    LET matched == { i \in 1..Len(rows) :
                       /\ rows[i].creator_id = creator
                       /\ rows[i].type = channel_type
                       /\ rows[i].data = data }
        restored == [i \in 1..Len(rows) |->
                        IF i \in matched
                        THEN [rows[i] EXCEPT !.removed = FALSE, !.currency = currency]
                        ELSE rows[i]]
        conflict == \E i \in 1..Len(rows) :
                       /\ rows[i].creator_id = creator /\ rows[i].type = channel_type
                       /\ rows[i].data = data /\ rows[i].currency = currency
    IN  IF matched # {} THEN { [rows |-> restored, channel_id |-> c] : c \in matched }
        ELSE IF conflict THEN { [rows |-> rows, channel_id |-> 0] }
        ELSE { [rows |-> Append(rows, [creator_id |-> creator, type |-> channel_type,
                                       data |-> data, currency |-> currency,
                                       removed |-> FALSE]),
                channel_id |-> Len(rows) + 1] }

\* the end of a request: api_method commits what the handler wrote, or rolls
\* it back when the handler raised; providers are the provider accounts
\* created for the channel, events the notifications handed to
\* send_notification
EndAttach(op, res, created, providers, events) ==
    /\ Len(accounts.notifications) + Len(events) <= MaxAccountEvents
    /\ accounts' =
          IF res # "OK" THEN accounts
          ELSE [payout_channel |-> created.rows,
                provider_account |-> accounts.provider_account
                                        \cup { <<created.channel_id, pr>> : pr \in providers },
                notifications |-> accounts.notifications \o events]
    /\ last' = [NoCall EXCEPT !.op = op, !.t = created.channel_id, !.res = res]
    /\ UNCHANGED <<transfers, sent, durable, open, tasks, foreign, sweep, calc, payout_provider, creating, chain, pg, removed>>

\* AccountFactory.attach_self_custody_wallet behind create_crypto_account
attach_self_custody_wallet ==
    \E creator \in {"alice"}, country \in {NullStr, "HK", "DE"},
       data \in {[network |-> "Polygon", address |-> "0xw1", currency |-> "USDC"]} :
        \E created \in create_payout_channel(accounts.payout_channel, creator, "crypto",
                                             data, data.currency) :
            IF country = NullStr
            THEN EndAttach("attach_self_custody_wallet", "INTERNAL", created, {}, << >>)
            ELSE IF created.channel_id = 0
            THEN EndAttach("attach_self_custody_wallet", "INTERNAL", created, {}, << >>)
            ELSE EndAttach("attach_self_custody_wallet", "OK", created,
                     (IF payout_providers(country) \cap CRYPTO_NETWORK_NAMES # {}
                      THEN {data.network} ELSE {})
                     \cup (IF "Mercuryo" \in payout_providers(country)
                              /\ data.network \in {"Ethereum", "Polygon"}
                           THEN {"Mercuryo"} ELSE {}),
                     << [kind |-> "AccountCreated", creator_id |-> creator,
                         channel_id |-> created.channel_id] >>)

\* AccountFactory.attach_bank_account behind create_bank_account; stripe_ok is
\* whether StripeBankAccount.create_new returned
attach_bank_account ==
    \E creator \in {"alice"}, country \in {NullStr, "HK", "DE"},
       data \in {[account_number |-> "1234", currency |-> "USD"]}, stripe_ok \in BOOLEAN :
        \E created \in create_payout_channel(accounts.payout_channel, creator, "bank_account",
                                             data, data.currency) :
            IF country = NullStr
            THEN EndAttach("attach_bank_account", "INTERNAL", created, {}, << >>)
            ELSE IF created.channel_id = 0
            THEN EndAttach("attach_bank_account", "INTERNAL", created, {}, << >>)
            ELSE IF "Stripe" \in payout_providers(country) /\ ~stripe_ok
            THEN EndAttach("attach_bank_account", "OBJECT_NOT_FOUND", created, {}, << >>)
            ELSE EndAttach("attach_bank_account", "OK", created,
                     payout_providers(country) \cap {"Stripe", "Windapp"},
                     << [kind |-> "AccountCreated", creator_id |-> creator,
                         channel_id |-> created.channel_id] >>)

\* AccountFactory.attach_stripe_bank_account; the data come from the Stripe
\* external account, stripe_ok is whether Stripe returned it
attach_stripe_bank_account ==
    \E creator \in {"alice"}, country \in {NullStr, "HK", "DE"},
       data \in {[account_number |-> "6789", currency |-> "USD"]}, stripe_ok \in BOOLEAN :
        \E created \in create_payout_channel(accounts.payout_channel, creator, "bank_account",
                                             data, data.currency) :
            IF country = NullStr
            THEN EndAttach("attach_stripe_bank_account", "CREATOR_COUNTRY_NOT_SELECTED",
                           created, {}, << >>)
            ELSE IF "Stripe" \notin payout_providers(country)
            THEN EndAttach("attach_stripe_bank_account", "INTERNAL", created, {}, << >>)
            ELSE IF \E i \in 1..Len(accounts.payout_channel) :
                       /\ accounts.payout_channel[i].creator_id = creator
                       /\ accounts.payout_channel[i].data = data
                       /\ ~accounts.payout_channel[i].removed
                       /\ <<i, "Stripe">> \in accounts.provider_account
            THEN EndAttach("attach_stripe_bank_account", "ACCOUNT", created, {}, << >>)
            ELSE IF ~stripe_ok \/ created.channel_id = 0
            THEN EndAttach("attach_stripe_bank_account", "INTERNAL", created, {}, << >>)
            ELSE EndAttach("attach_stripe_bank_account", "OK", created, {"Stripe"}, << >>)

\* AccountFactory.attach_circle_crypto_account, called by the Circle handlers
\* for the wallet Circle created
attach_circle_crypto_account ==
    \E creator \in {"alice"}, country \in {NullStr, "HK", "DE"},
       data \in {[network |-> "Polygon", address |-> "0xw1", currency |-> "USDC"]} :
        \E created \in create_payout_channel(accounts.payout_channel, creator, "crypto",
                                             data, data.currency) :
            IF country = NullStr \/ created.channel_id = 0
            THEN EndAttach("attach_circle_crypto_account", "INTERNAL", created, {}, << >>)
            ELSE EndAttach("attach_circle_crypto_account", "OK", created,
                     {"Circle"} \cup (IF "Mercuryo" \in payout_providers(country)
                                         /\ data.network \in {"Ethereum", "Polygon"}
                                      THEN {"Mercuryo"} ELSE {}),
                     << >>)

get_account_with_removed(channel_id, with_removed) ==
    \E row \in accounts.provider_account : row[1] = channel_id

\* AccountFactory.get_account found the account: the channel's row INNER JOIN
\* its provider_account rows, removed = False unless with_removed
get_account(channel_id, with_removed) ==
    /\ \E row \in accounts.provider_account : row[1] = channel_id
    /\ with_removed \/ ~accounts.payout_channel[channel_id].removed

\* remove_payout_channel: AccountFactory.get_account, the owner check, then
\* TerminationAccount.remove: PayoutChannel.remove, ProviderAccount.remove
\* (pass) for every provider account, and one AccountDeleted
remove_payout_channel ==
    \E creator \in {"alice", "bob"}, channel_id \in 1..Len(accounts.payout_channel) :
        LET rows == accounts.payout_channel
            found == [rows |-> rows, channel_id |-> channel_id]
        IN  IF ~get_account(channel_id, FALSE)
            THEN EndAttach("remove_payout_channel", "OBJECT_NOT_FOUND", found, {}, << >>)
            ELSE IF rows[channel_id].creator_id # creator
            THEN EndAttach("remove_payout_channel", "ACCESS_ERROR", found, {}, << >>)
            ELSE EndAttach("remove_payout_channel", "OK",
                     [found EXCEPT !.rows[channel_id].removed = TRUE], {},
                     << [kind |-> "AccountDeleted", creator_id |-> creator,
                         channel_id |-> channel_id] >>)

NextAttach ==
    \/ attach_self_custody_wallet
    \/ attach_bank_account
    \/ attach_stripe_bank_account
    \/ attach_circle_crypto_account
    \/ remove_payout_channel

SpecAttach == Init /\ [][NextAttach]_vars

(***************************************************************************)
(* SpecPay: handlers in several worker processes adding a payment to one   *)
(* transfer (Transfer.get_by_id, then Transfer.create_payment, as          *)
(* process_withdraw_event does).  A worker's transaction sees the rows     *)
(* committed before its statement (READ COMMITTED).                        *)
(***************************************************************************)
no_payment_key(rows, payment_index) == TRUE

\* the uniqueness constraint of public.payment on (transfer_id,
\* payment_index): whether a row with this index may be inserted
payment_transfer_id_payment_index_key(rows, payment_index) ==
    \A i \in 1..Len(rows) : rows[i].payment_index # payment_index

\* Transfer.get_by_id in a worker: the transfer with its payments, ordered by
\* payment_index
get_by_id ==
    \E w \in Workers, t \in 1..Len(transfers) :
        /\ creating[w] = NoCall
        /\ TransferFound(transfers, t)
        /\ creating' = [creating EXCEPT ![w] =
                           [NoCall EXCEPT !.op = "get_by_id", !.t = t,
                                          !.idx = Len(transfers[t].payments)]]
        /\ UNCHANGED <<transfers, sent, last, durable, open, tasks, foreign, sweep, calc, payout_provider, accounts, chain, pg, removed>>

\* Transfer.create_payment in a worker that loaded the transfer, and the end
\* of its request: payment_index is the length of the list it loaded; the
\* INSERT of Payment.create_new raises when the constraint refuses the row and
\* the middleware rolls back, otherwise it commits
create_payment_in_worker ==
    \E w \in Workers :
        /\ creating[w] # NoCall
        /\ LET t == creating[w].t
               payment_index == creating[w].idx
               first == transfers[t].payments[1]
               row == NewPayment(payment_index,
                                 [sender_channel_id |-> NullStr,
                                  channel_id |-> first.payout_channel_id,
                                  provider |-> "Mercuryo",
                                  payment_type |-> first.payment_type], "USDC")
               inserted == payment_transfer_id_payment_index_key(transfers[t].payments,
                                                                 payment_index)
           IN  /\ Len(transfers[t].payments) < MaxPayments
               /\ transfers' = IF inserted
                               THEN [transfers EXCEPT ![t].payments = Append(@, row)]
                               ELSE transfers
               /\ last' = [NoCall EXCEPT !.op = "create_payment", !.t = t,
                                         !.idx = payment_index,
                                         !.res = IF inserted THEN "OK" ELSE "Internal error"]
        /\ durable' = transfers'
        /\ creating' = [creating EXCEPT ![w] = NoCall]
        /\ UNCHANGED <<sent, open, tasks, foreign, sweep, calc, payout_provider, accounts, chain, pg, removed>>

NextPay ==
    \/ BeginCardTransfer("own")
    \/ BeginCryptoTransfer("own")
    \/ get_by_id
    \/ create_payment_in_worker

SpecPay == Init /\ [][NextPay]_vars

(***************************************************************************)
(* SpecSubmit: transfer_submit_crypto in several worker processes          *)
(* (routers/transfer_api.py).  Payment.load is a plain SELECT; the checks  *)
(* that follow read the Payment object, update_payment writes the row and  *)
(* the middleware commits.                                                 *)
(***************************************************************************)
\* Payment.load(transfer_id, payment_index=0) in a worker: the committed row
PaymentLoad(w) ==
    \E t \in 1..Len(transfers) :
        /\ creating[w] = NoCall
        /\ PaymentFound(transfers, t, 0)
        /\ creating' = [creating EXCEPT ![w] =
                           [op |-> "Payment.load", t |-> t,
                            payment |-> transfers[t].payments[1]]]
        /\ last' = [NoCall EXCEPT !.op = "Payment.load", !.t = t, !.idx = 0]
        /\ UNCHANGED <<transfers, sent, durable, open, tasks, foreign, sweep, calc, payout_provider, accounts, chain, pg, removed>>

\* the rest of transfer_submit_crypto in the worker that loaded the payment,
\* and the end of its request: the checks see the object Payment.load built,
\* Payment.update sets external_id and status on the row as it is now, and
\* Transfer.get_by_id in update_payment reads the transfer as it is now
SubmitLoaded(w) ==
    \E transaction_id \in TxIds, check_ok \in BOOLEAN :
        /\ creating[w] # NoCall
        /\ LET t == creating[w].t
               seen == [transfers EXCEPT ![t].payments[1] = creating[w].payment]
               o == transfer_submit_crypto(seen, sent, t, transaction_id, check_ok)
               written == [o.tr EXCEPT ![t].payments[1] =
                              [transfers[t].payments[1] EXCEPT
                                  !.external_id = o.tr[t].payments[1].external_id,
                                  !.status = o.tr[t].payments[1].status]]
           IN  /\ WithinBounds(o)
               /\ transfers' = IF o.res = "OK" THEN written ELSE transfers
               /\ sent' = IF o.res = "OK" THEN o.nt ELSE sent
               /\ last' = Call("transfer_submit_crypto", t, o)
        /\ durable' = transfers'
        /\ creating' = [creating EXCEPT ![w] = NoCall]
        /\ UNCHANGED <<open, tasks, foreign, sweep, calc, payout_provider, accounts, chain, pg, removed>>

NextSubmit ==
    \/ BeginCardTransfer("own")
    \/ BeginCryptoTransfer("own")
    \/ ChainMonitor("own")
    \/ \E w \in Workers : PaymentLoad(w) \/ SubmitLoaded(w)

SpecSubmit == Init /\ [][NextSubmit]_vars

(***************************************************************************)
(* SpecProv: attach_self_custody_wallet and remove_payout_channel for one   *)
(* wallet of one creator, statement by statement, from worker processes    *)
(* with a connection each (payout/payout_channel.py,                       *)
(* payout/provider_account.py, payout/account_factory.py).  A statement    *)
(* sees the committed rows and the rows its own transaction wrote; an      *)
(* UPDATE holds the rows it changed until its transaction ends, and a      *)
(* statement that needs a held row waits.                                  *)
(***************************************************************************)
RowNeverLocked(channel_id, w) == FALSE

\* another connection's open transaction holds the payout_channel row: its
\* try_restore_payout_channel changed it
RowLocked(channel_id, w) ==
    \E v \in Workers \ {w} : pg.txn[v].pc # "idle" /\ pg.txn[v].channel_id = channel_id

\* the create_new calls of attach_self_custody_wallet's loop over
\* creator.country.payout_providers: SelfCustodyCryptoWallet.create_new, with
\* provider = the wallet's network, once for every crypto network among them,
\* and MercuryoCryptoProviderAccount.create_new
ProviderAccountsToCreate(country, network) ==
    LET networks == payout_providers(country) \cap CRYPTO_NETWORK_NAMES
    IN  [i \in 1..Cardinality(networks) |-> network]
        \o (IF "Mercuryo" \in payout_providers(country) /\ network \in {"Ethereum", "Polygon"}
            THEN <<"Mercuryo">> ELSE << >>)

\* try_restore_payout_channel: the UPDATE of the wallet's row, which waits
\* while another transaction holds it
try_restore_payout_channel(w) ==
    /\ pg.txn[w].pc = "idle"
    /\ \E country \in {"HK", "US"} :
          IF pg.payout_channel # << >>
          THEN \E c \in 1..Len(pg.payout_channel) :
                  /\ ~RowLocked(c, w)
                  /\ pg' = [pg EXCEPT !.txn[w] =
                                [NoTxn EXCEPT !.pc = "providers", !.channel_id = c,
                                              !.was_removed = pg.payout_channel[c].removed,
                                              !.todo = ProviderAccountsToCreate(country, "Ethereum")]]
          ELSE pg' = [pg EXCEPT !.txn[w] =
                         [NoTxn EXCEPT !.pc = "insert",
                                       !.todo = ProviderAccountsToCreate(country, "Ethereum")]]
    /\ UNCHANGED <<transfers, sent, last, durable, open, tasks, foreign, sweep, calc, payout_provider, accounts, creating, chain, removed>>

\* create_payout_channel's INSERT ... ON CONFLICT ON CONSTRAINT
\* payout_channel_creator_id_type_data_currency_key DO NOTHING: it waits for
\* another transaction's insert of the same key, inserts nothing when the key
\* is there, and then the handler raises and its transaction is rolled back
insert_payout_channel(w) ==
    /\ pg.txn[w].pc = "insert"
    /\ ~\E v \in Workers \ {w} : pg.txn[v].inserted
    /\ pg' = IF pg.payout_channel # << >>
             THEN [pg EXCEPT !.txn[w] = NoTxn]
             ELSE [pg EXCEPT !.txn[w].pc = "providers", !.txn[w].inserted = TRUE,
                             !.txn[w].channel_id = Len(pg.payout_channel) + 1]
    /\ UNCHANGED <<transfers, sent, last, durable, open, tasks, foreign, sweep, calc, payout_provider, accounts, creating, chain, removed>>

\* try_restore_provider_account: the UPDATE ... WHERE channel_id = %s AND
\* provider = %s RETURNING channel_id of the next create_new_provider_account
try_restore_provider_account(w) ==
    /\ pg.txn[w].pc = "providers"
    /\ pg.txn[w].todo # << >>
    /\ LET key == <<pg.txn[w].channel_id, Head(pg.txn[w].todo)>>
           visible == pg.provider_account \o pg.txn[w].rows
           restored == \E i \in 1..Len(visible) : visible[i] = key
       IN  pg' = IF restored
                 THEN [pg EXCEPT !.txn[w].todo = Tail(@)]
                 ELSE [pg EXCEPT !.txn[w].pc = "insert_provider"]
    /\ UNCHANGED <<transfers, sent, last, durable, open, tasks, foreign, sweep, calc, payout_provider, accounts, creating, chain, removed>>

\* create_new_provider_account after "if restored: return": the INSERT
create_new_provider_account(w) ==
    /\ pg.txn[w].pc = "insert_provider"
    /\ pg' = [pg EXCEPT !.txn[w].pc = "providers",
                        !.txn[w].rows = Append(@, <<pg.txn[w].channel_id, Head(pg.txn[w].todo)>>),
                        !.txn[w].todo = Tail(@)]
    /\ UNCHANGED <<transfers, sent, last, durable, open, tasks, foreign, sweep, calc, payout_provider, accounts, creating, chain, removed>>

\* api_method after the handler returned: Database.commit()
CommitAttach(w) ==
    /\ pg.txn[w].pc = "providers"
    /\ pg.txn[w].todo = << >>
    /\ pg' = [payout_channel |->
                 IF pg.txn[w].inserted
                 THEN Append(pg.payout_channel, [removed |-> FALSE])
                 ELSE [pg.payout_channel EXCEPT ![pg.txn[w].channel_id].removed = FALSE],
             provider_account |-> pg.provider_account \o pg.txn[w].rows,
             txn |-> [pg.txn EXCEPT ![w] = NoTxn]]
    /\ UNCHANGED <<transfers, sent, last, durable, open, tasks, foreign, sweep, calc, payout_provider, accounts, creating, chain, removed>>

\* remove_payout_channel in a transaction of its own: PayoutChannel.remove's
\* UPDATE ... SET removed=True, ProviderAccount.remove (pass) for each
\* provider account, and the commit
RemoveChannel(w) ==
    /\ pg.txn[w].pc = "idle"
    /\ \E c \in 1..Len(pg.payout_channel) :
          /\ ~pg.payout_channel[c].removed
          /\ ~RowLocked(c, w)
          /\ pg' = [pg EXCEPT !.payout_channel[c].removed = TRUE]
    /\ UNCHANGED <<transfers, sent, last, durable, open, tasks, foreign, sweep, calc, payout_provider, accounts, creating, chain, removed>>

NextProv ==
    \E w \in Workers :
        \/ try_restore_payout_channel(w)
        \/ insert_payout_channel(w)
        \/ try_restore_provider_account(w)
        \/ create_new_provider_account(w)
        \/ CommitAttach(w)
        \/ RemoveChannel(w)

SpecProv == Init /\ [][NextProv]_vars

(***************************************************************************)
(* Properties                                                              *)
(***************************************************************************)
\* the status vocabulary of the transfer state machine
TerminalStatuses == {"canceled", "failed", "expired", "rejected"}

SpecStatuses ==
    {"created", "pending", "submitted", "pending payout", "paid out",
     "payment complete"} \cup TerminalStatuses

StartOps == {"begin_card_transfer", "begin_crypto_transfer", "circle_start_transfer"}

Relayed(transfer) ==
    transfer.remittance_user # NullStr /\ transfer.remittance_user # transfer.creator_id

\* the step is an update_payment call on a payment that existed before it
UpdatesPayment(t, idx) ==
    /\ last'.t = t /\ last'.idx = idx
    /\ t \in 1..Len(transfers)
    /\ idx >= 0 /\ idx < Len(transfers[t].payments)

\* C1: submit_payout on a transfer whose status is not 'pending payout' fails
\* with an access error and leaves the transfer and its payments as they were
C1_SubmitPayoutRefused ==
    [][ ( /\ last'.op = "submit_payout"
          /\ last'.t \in 1..Len(transfers)
          /\ transfers[last'.t].status # "pending payout" )
        => ( /\ last'.res = "ACCESS_ERROR"
             /\ transfers' = transfers
             /\ durable' = durable ) ]_vars

C1_Witness ==
    /\ last.op = "submit_payout"
    /\ last.res = "ACCESS_ERROR"
    /\ transfers[last.t].status = "submitted"
    /\ Len(transfers[last.t].payments) = 2
    /\ transfers[last.t].payments[2].status = "submitted"

\* C2: a relayed transfer gets exactly one PayoutRequest over the whole run:
\* one once its hop 0 has settled with a final status at the remittance
\* user's channel, and never a second one, redelivery included
C2_PayoutRequestOnce ==
    \A t \in 1..Len(transfers) :
        /\ sent[t].PayoutRequest <= 1
        /\ ( /\ Relayed(transfers[t])
             /\ transfers[t].status = "pending payout" ) => sent[t].PayoutRequest = 1

\* C3: an update_payment call that reports a terminal success status the
\* payment already has sends no further TransferComplete
C3_CompleteNotRepeated ==
    [][ \A t \in 1..Len(transfers) : \A idx \in 0..(MaxPayments - 1) :
          ( /\ UpdatesPayment(t, idx)
            /\ last'.status \in {"paid out", "payment complete"}
            /\ transfers[t].payments[idx + 1].status = last'.status )
          => sent'[t].TransferComplete = sent[t].TransferComplete ]_vars

\* C4: TransferComplete is sent only by an update_payment call whose payment
\* settles at a channel of the transfer's creator_id and whose status is final
\* for the payment type ('paid out' for crypto, 'payment complete' for card)
C4_CompleteOnlyAtReceiver ==
    [][ \A t \in 1..Len(sent') :
          ( sent'[t].TransferComplete >
              (IF t <= Len(sent) THEN sent[t].TransferComplete ELSE 0) )
          => ( /\ last'.t = t
               /\ last'.idx >= 0 /\ last'.idx < Len(transfers'[t].payments)
               /\ LET p == transfers'[t].payments[last'.idx + 1]
                  IN  /\ PayoutChannel[p.payout_channel_id].creator_id
                            = transfers'[t].creator_id
                      /\ \/ p.payment_type = "card" /\ last'.status = "payment complete"
                         \/ /\ p.payment_type \in CRYPTO_PAYMENT_TYPES
                            /\ last'.status = "paid out" ) ]_vars

C4_Witness ==
    /\ last.idx >= 0
    /\ last.res = "OK"
    /\ last.status = "paid out"
    /\ last.t \in 1..Len(transfers)
    /\ Relayed(transfers[last.t])
    /\ last.idx = 1
    /\ sent[last.t].TransferComplete = 1
    /\ sent[last.t].PayoutRequest = 1

\* C5: a transfer whose status is canceled, failed, expired or rejected keeps
\* that status in every later step
C5_TerminalIsFinal ==
    [][ \A t \in 1..Len(transfers) :
          transfers[t].status \in TerminalStatuses
          => ( /\ t <= Len(transfers')
               /\ transfers'[t].status = transfers[t].status ) ]_vars

\* C6 as stated: every transfer's status is one of the ten listed values
C6_StatusVocabulary ==
    \A t \in 1..Len(transfers) : transfers[t].status \in SpecStatuses

\* C6 as amended: every transfer's status is one of the ten listed values or
\* 'paid', the status the Mercuryo buy handler reports
C6_StatusVocabularyWithPaid ==
    \A t \in 1..Len(transfers) : transfers[t].status \in SpecStatuses \cup {"paid"}

C6_Witness ==
    \E t \in 1..Len(transfers) :
        /\ transfers[t].status = "paid"
        /\ last.op = "process_buy_event"
        /\ last.status = "paid"

StatusRank(status) ==
    CASE status = "created" -> 0
      [] status = "pending" -> 1
      [] status = "submitted" -> 2
      [] status = "pending payout" -> 3
      [] status \in {"paid out", "payment complete"} -> 4
      [] OTHER -> 5

\* C7: no step moves a transfer to a status that comes earlier in the order
\* created, pending, submitted, pending payout, {paid out | payment complete}
\* than the status it has
C7_StatusOnlyForward ==
    [][ \A t \in 1..Len(transfers) :
          ( /\ t <= Len(transfers')
            /\ transfers[t].status \in SpecStatuses \ TerminalStatuses
            /\ transfers'[t].status \in SpecStatuses )
          => StatusRank(transfers'[t].status) >= StatusRank(transfers[t].status) ]_vars

\* C8 as stated: when start_payment has returned a PaymentIntent the new
\* transfer's status is 'pending'
C8_StartedIsPending ==
    (last.op \in StartOps /\ last.res = "OK")
    => transfers[last.t].status = "pending"

\* C8 as amended: when start_payment has returned a PaymentIntent, payment 0
\* of the new transfer has status 'pending' and the transfer's own status is
\* still 'created', for one-step and two-step routes alike
C8_StartedPaymentIsPending ==
    (last.op \in StartOps /\ last.res = "OK")
    => /\ transfers[last.t].payments[1].status = "pending"
       /\ transfers[last.t].status = "created"

C8_Witness ==
    /\ last.op \in StartOps
    /\ last.res = "OK"
    /\ Relayed(transfers[last.t])
    /\ Len(transfers[last.t].payments) = 2
    /\ transfers[last.t].payments[1].status = "pending"

\* C9: a direct transfer has exactly one payment and a relayed one exactly
\* two, with payment_index values 0..n-1 in order
C9_PaymentCount ==
    \A t \in 1..Len(transfers) :
        /\ Len(transfers[t].payments) = (IF Relayed(transfers[t]) THEN 2 ELSE 1)
        /\ \A i \in 1..Len(transfers[t].payments) :
              transfers[t].payments[i].payment_index = i - 1

\* C10: the pending writes of an in-flight operation are never made durable by
\* a commit that another request or a notification task issued
C10_OwnCommitOnly == foreign = {}

\* C11: when an operation fails part-way, none of its writes is ever committed,
\* whichever driver ran it; for the chain monitor: a payment that a sweep wrote
\* before the sweep raised stays, in the committed rows, as it was before that
\* sweep ('submitted'), whatever later sweeps commit
C11_FailedSweepNotCommitted ==
    \A x \in sweep.orphaned : durable[x[1]].payments[x[2] + 1].status = "submitted"

\* C12: submit_payout fails with a payment error and writes nothing when the
\* amount the operator supplies differs from the expected payout; so a
\* submit_payout that went through left the expected amount on the payout
\* payment
C12_MismatchRefused ==
    (last.op = "submit_payout" /\ last.res = "OK") =>
        LET transfer == transfers[last.t]
        IN  transfer.payments[2].total_amount =
                expected_amount(transfer.payments[1].total_amount,
                                transfer.payments[1].to_usd_rate,
                                transfer.payments[1].provider_fee,
                                transfer.payments[2].provider_fee,
                                transfer.tm_fee,
                                transfer.payments[2].to_usd_rate)

\* C13: for a token currency check_transaction raises a transaction-check
\* error when the destination decoded from the input differs from the expected
\* one, and its destination check does not raise when they are equal; so a
\* transfer that pays another address is never accepted
C13_DestinationChecked ==
    (/\ calc.fn = "check_transaction" /\ calc.done
     /\ calc.shape = "transfer" /\ calc.exp_curr_name = "USDC") =>
        /\ lower(calc.paid) # lower(calc.exp_dst) => calc.out.code = "TRX_CHECK_ERROR"
        /\ lower(calc.paid) = lower(calc.exp_dst) => calc.out.at # "destination"

\* C14: for a valid destination D and an amount A >= 0, decimals 6, the data of
\* create_transaction(D, currency, A) is 68 bytes that begin with the selector
\* a9059cbb, and decoding them as check_transaction's token branch does yields
\* D in lower case and A * 10^6
C14_RoundTrip ==
    (/\ calc.fn = "create_transaction" /\ calc.done
     /\ calc.currency_name = "USDC" /\ calc.amount.coefficient >= 0
     /\ calc.amount.exponent = 0) =>
        /\ calc.out.ok
        /\ LET trx_data == FromHex(calc.out.value.data)
           IN  /\ (Len(trx_data) \div 2) = 68
               /\ Slice(trx_data, 0, 4) = TRANSFER_METHOD_ID
               /\ actual_dst(trx_data, calc.prefixed) = lower(calc.destination)
               /\ actual_amount(trx_data, calc.prefixed) = calc.amount.coefficient * (10 ^ 6)

UpperCaseLetters == {"A", "B", "C", "D", "E", "F", "G", "X"}

IsHexDigit(c) ==
    c \in {"0", "1", "2", "3", "4", "5", "6", "7", "8", "9"}
            \cup {"a", "b", "c", "d", "e", "f", "A", "B", "C", "D", "E", "F"}

WellFormedAddress(a) ==
    /\ Len(a) = 42
    /\ a[1] = "0"
    /\ a[2] = "x"
    /\ \A i \in 3..42 : IsHexDigit(a[i])

\* C15: check_wallet_address(a) returns a in lower case if and only if a has
\* exactly 42 characters, begins with 0x and its other 40 characters are
\* hexadecimal digits, and raises the wrong-wallet-address error otherwise; so
\* the address of every CryptoAccountDetails is in lower case
C15_WalletAddress ==
    /\ (calc.fn = "check_wallet_address" /\ calc.done) =>
          /\ calc.out.ok <=> WellFormedAddress(calc.address)
          /\ calc.out.ok =>
                /\ Len(calc.out.value) = Len(calc.address)
                /\ \A i \in 1..Len(calc.address) :
                      /\ calc.out.value[i] \notin UpperCaseLetters
                      /\ calc.out.value[i] = LowerChar(calc.address[i])
          /\ ~calc.out.ok => calc.out.code = "WRONG_WALLET_ADDR"
    /\ (calc.fn = "CryptoAccountDetails" /\ calc.done /\ calc.out.ok) =>
          \A i \in 1..Len(calc.out.value.address) :
              calc.out.value.address[i] \notin UpperCaseLetters

\* an address with capital hexadecimal digits was accepted and returned
C15_Witness ==
    /\ calc.fn = "check_wallet_address"
    /\ calc.done
    /\ calc.out.ok
    /\ \E i \in 1..Len(calc.address) : calc.address[i] \in UpperCaseLetters

\* C16: a submitted crypto payment whose transaction get_transaction_status
\* reports as failed is moved by the chain monitor to 'rejected'
C16_FailedIsRejected ==
    (sweep.reported # << >> /\ sweep.reported[2] = "failed") =>
        LET x == sweep.reported[1]
        IN  transfers[x[1]].payments[x[2] + 1].status = "rejected"

\* C17: every route of get_available_routes with a second step was produced
\* for a full Creator, its first step has a crypto payment type the proxy
\* account supports, and its remittance_user_id is the owner of the first
\* step's payout channel; every one-step route has no remittance_user_id
C17_TwoStepRoutes ==
    (calc.fn = "get_available_routes" /\ calc.done) =>
        \A route \in calc.out :
            IF route.second_step # NoStep
            THEN /\ calc.recipient \in Creators
                 /\ route.first_step.payment_type \in CRYPTO_PAYMENT_TYPES
                 /\ <<Country[calc.recipient], route.first_step.channel_id>> \in ProxyRules
                 /\ route.first_step.payment_type \in
                       SupportedPaymentTypes(<<route.first_step.channel_id,
                                               route.first_step.provider>>,
                                             Verified[calc.recipient])
                 /\ route.remittance_user_id =
                       PayoutChannel[route.first_step.channel_id].creator_id
            ELSE route.remittance_user_id = NullStr

\* a creator got a relayed route, and the same call returned a direct one
C17_Witness ==
    /\ calc.fn = "get_available_routes"
    /\ calc.done
    /\ \E route \in calc.out : route.second_step # NoStep
    /\ \E route \in calc.out : route.second_step = NoStep

\* the routes among which get_cheapest_route is said to choose
Eligible(recipient, payment_type, currency, amount) ==
    { r \in get_available_routes(recipient, NullStr) :
        /\ r.first_step.payment_type = payment_type
        /\ (amount # NullNum /\ currency # NullStr) =>
              /\ transfer_min_usd(r) <= amount * ExchangeRateToUsd(currency)
              /\ amount * ExchangeRateToUsd(currency) <= transfer_max_usd(r) }

\* C18: the route get_cheapest_route returns has the least estimated fee among
\* the available routes whose first step has the requested payment type and,
\* when amount and currency are given, whose bounds contain the USD amount
C18_CheapestRoute ==
    (calc.fn = "get_cheapest_route" /\ calc.done /\ calc.out.err = "none") =>
        LET eligible == Eligible(calc.recipient, calc.payment_type, calc.currency, calc.amount)
        IN  /\ calc.out.route \in eligible
            /\ \A r \in eligible : estimated_fee(calc.out.route) <= estimated_fee(r)

\* C19: given an amount and a currency, a returned route has
\* transfer_min_usd <= amount x rate <= transfer_max_usd; an amount (0
\* included) below every candidate's minimum raises the min-amount error, one
\* above every candidate's maximum the max-amount error
C19_AmountBounds ==
    (/\ calc.fn = "get_cheapest_route" /\ calc.done
     /\ calc.amount # NullNum /\ calc.currency # NullStr) =>
        LET typed == { r \in get_available_routes(calc.recipient, NullStr) :
                         r.first_step.payment_type = calc.payment_type }
            amount_usd == calc.amount * ExchangeRateToUsd(calc.currency)
        IN  /\ calc.out.err = "none" =>
                  /\ transfer_min_usd(calc.out.route) <= amount_usd
                  /\ amount_usd <= transfer_max_usd(calc.out.route)
            /\ (typed # {} /\ \A r \in typed : amount_usd < transfer_min_usd(r)) =>
                  calc.out.err = "The min amount for this payment route"
            /\ (typed # {} /\ \A r \in typed : amount_usd > transfer_max_usd(r)) =>
                  calc.out.err = "The max amount for this payment route"

\* C20: if get_available_routes is empty for the recipient, start_payment
\* raises 'User is not ready to accept payments' and has created no Transfer
\* row and no Payment row
C20_NotReady ==
    (/\ calc.fn = "start_payment" /\ calc.done
     /\ get_available_routes(calc.recipient, NullStr) = {}) =>
        /\ calc.out.res = "INTERNAL"
        /\ calc.out.err = "User is not ready to accept payments"
        /\ calc.out.tr = << >>

\* a creator who has attached no channel was offered a payment
C20_Witness ==
    /\ calc.fn = "start_payment"
    /\ calc.done
    /\ calc.recipient \in Creators
    /\ get_available_routes(calc.recipient, NullStr) = {}
    /\ calc.out.err = "User is not ready to accept payments"

\* C21: after start_payment succeeds, payment 0 exists with status 'pending',
\* the first hop's recipient channel and provider and the PaymentIntent's
\* currency and external_id; payment 1 exists if and only if the chosen route
\* has a second step, and then has the second hop's recipient channel and
\* provider and no total_amount, to_usd_rate or external_id
C21_StartedPayments ==
    (calc.fn = "start_payment" /\ calc.done /\ calc.out.res = "OK") =>
        LET route == calc.out.route
            payments == calc.out.tr[1].payments
            intent == receive_payment(route.first_step, calc.payment_type, calc.amount, 1, TRUE)
        IN  /\ Len(payments) = (IF route.second_step # NoStep THEN 2 ELSE 1)
            /\ payments[1].payment_index = 0
            /\ payments[1].status = "pending"
            /\ payments[1].payout_channel_id = route.first_step.channel_id
            /\ payments[1].provider = route.first_step.provider
            /\ payments[1].currency = intent.currency
            /\ payments[1].external_id = intent.external_id
            /\ route.second_step # NoStep =>
                  /\ payments[2].payment_index = 1
                  /\ payments[2].payout_channel_id = route.second_step.channel_id
                  /\ payments[2].provider = route.second_step.provider
                  /\ payments[2].total_amount = NullNum
                  /\ payments[2].to_usd_rate = NullNum
                  /\ payments[2].external_id = NullStr

\* a payment over a relayed route was started: both rows exist
C21_Witness ==
    /\ calc.fn = "start_payment"
    /\ calc.done
    /\ calc.out.res = "OK"
    /\ calc.out.route.second_step # NoStep
    /\ Len(calc.out.tr[1].payments) = 2

\* C22: create_transaction fails with a payment error when amount x
\* 10^decimals is negative or is not an integer, and otherwise encodes exactly
\* amount x 10^decimals: for a token currency in the last 32 bytes of data,
\* with 'to' set to the token contract
C22_ScaledAmount ==
    (/\ calc.fn = "create_transaction" /\ calc.done
     /\ calc.currency_name \in DOMAIN Currencies) =>
        LET currency == Currencies[calc.currency_name]
            shift == currency.decimals + calc.amount.exponent
            integral == shift >= 0 \/ calc.amount.coefficient % (10 ^ (-shift)) = 0
            exact == IF shift >= 0 THEN calc.amount.coefficient * (10 ^ shift)
                     ELSE calc.amount.coefficient \div (10 ^ (-shift))
        IN  IF calc.amount.coefficient < 0 \/ ~integral
            THEN ~calc.out.ok /\ calc.out.code = "PAYMENT"
            ELSE /\ calc.out.ok
                 /\ calc.out.value.to = currency.contract_address
                 /\ Len(calc.out.value.data) = 2 + 2 * 68
                 /\ IntOf16(SubSeq(calc.out.value.data, 2 + 2 * 36 + 1, 2 + 2 * 68)) = exact

\* C23: every Payment with a total_amount has a to_usd_rate: a patch that
\* supplies total_amount (the value 0 included) without to_usd_rate is rejected
\* and writes nothing
C23_AmountHasRate ==
    (calc.fn = "update" /\ calc.done) =>
        /\ (calc.patch.total_amount # NullNum /\ calc.patch.to_usd_rate = NullNum) =>
              /\ ~calc.out.ok
              /\ calc.out.value = calc.payment
        /\ calc.out.value.total_amount # NullNum => calc.out.value.to_usd_rate # NullNum

\* the attach operations of AccountFactory
AttachOps ==
    {"attach_self_custody_wallet", "attach_bank_account",
     "attach_stripe_bank_account", "attach_circle_crypto_account"}

\* the rows of public.payout_channel holding the same creator, type, data
\* and currency as row i
SameChannel(rows, i) ==
    { j \in 1..Len(rows) :
        /\ rows[j].creator_id = rows[i].creator_id /\ rows[j].type = rows[i].type
        /\ rows[j].data = rows[i].data /\ rows[j].currency = rows[i].currency }

\* C24: through any number of create, remove, create cycles with the same
\* creator, type, data and currency, every create_payout_channel returns the
\* channel_id of the one row of that tuple: the row a successful attach
\* returns is not removed afterwards, no other row holds its tuple, and no
\* row is added when the tuple already had one.
C24_StableChannelId ==
    [][(last'.op \in AttachOps /\ last'.res = "OK") =>
          LET rows == accounts.payout_channel
              after == accounts'.payout_channel
              c == last'.t
          IN  /\ c \in 1..Len(after)
              /\ ~after[c].removed
              /\ SameChannel(after, c) = {c}
              /\ \A i \in 1..Len(rows) :
                    /\ after[i].creator_id = rows[i].creator_id
                    /\ after[i].type = rows[i].type
                    /\ after[i].data = rows[i].data
              /\ (c <= Len(rows)) = (Len(after) = Len(rows))
              /\ Len(after) <= Len(rows) + 1]_vars

\* a channel created, removed and created again under its first channel_id
C24_Witness ==
    /\ last.op = "attach_self_custody_wallet"
    /\ last.res = "OK"
    /\ \E i, j, k \in 1..Len(accounts.notifications) :
          /\ i < j /\ j < k /\ k = Len(accounts.notifications)
          /\ accounts.notifications[i].kind = "AccountCreated"
          /\ accounts.notifications[j].kind = "AccountDeleted"
          /\ accounts.notifications[k].kind = "AccountCreated"
          /\ accounts.notifications[i].channel_id = last.t
          /\ accounts.notifications[j].channel_id = last.t
          /\ accounts.notifications[k].channel_id = last.t
    /\ ~accounts.payout_channel[last.t].removed

\* C25: each successful attach operation hands exactly one AccountCreated
\* notification for the attached channel to send_notification, after the
\* channel and its provider accounts are created; a failed attach hands none.
C25_AccountCreatedOnce ==
    [][last'.op \in AttachOps =>
          IF last'.res = "OK"
          THEN /\ accounts'.notifications =
                     Append(accounts.notifications,
                            [kind |-> "AccountCreated",
                             creator_id |-> accounts'.payout_channel[last'.t].creator_id,
                             channel_id |-> last'.t])
               /\ ~accounts'.payout_channel[last'.t].removed
          ELSE accounts'.notifications = accounts.notifications]_vars

\* C26: get_available_routes returns no route with a hop through a Stripe
\* bank account unless the recipient is a creator whose Stripe verification
\* state is 'verified', and no route whose hop is an 'onramp' payment unless
\* the recipient's Sumsub state is 'verified'; for a recipient that is a bare
\* channel it returns no Stripe hop at all.
C26_VerificationGated ==
    (calc.fn = "get_available_routes" /\ calc.done) =>
        \A route \in calc.out : \A step \in {route.first_step, route.second_step} :
            /\ step.provider = "Stripe" =>
                  /\ calc.recipient \in Creators
                  /\ "Stripe" \in Verified[calc.recipient]
            /\ step.payment_type = "onramp" =>
                  /\ calc.recipient \in Creators
                  /\ "Sumsub" \in Verified[calc.recipient]

\* routes were returned for a creator with a Stripe bank account whose Stripe
\* state is not 'verified', or for a bare channel with a Stripe account
C26_Witness ==
    /\ calc.fn = "get_available_routes"
    /\ calc.done
    /\ calc.out # {}
    /\ \E row \in GetProviderAccounts(calc.recipient) : row[2] = "Stripe"
    /\ \/ calc.recipient \in ChannelIds
       \/ "Stripe" \notin Verified[calc.recipient]

\* C27: at most one submit_payout call succeeds for a relayed transfer: a
\* submit_payout that returns normally finds the second payment as
\* create_payment left it, and once the second payment is submitted the
\* transfer never enters 'pending payout' again.
C27_OnePayoutSubmitted ==
    [][ /\ (last'.op = "submit_payout" /\ last'.res = "OK") =>
              transfers[last'.t].payments[2].status = DefaultPaymentStatus
        /\ \A t \in 1..Len(transfers) :
              ( /\ Len(transfers[t].payments) >= 2
                /\ transfers[t].payments[2].status # DefaultPaymentStatus
                /\ transfers[t].status # "pending payout" )
              => transfers'[t].status # "pending payout" ]_vars

\* the statuses a provider or the chain monitor reports for a failed payment
FailureStatuses == {"canceled", "failed", "expired", "rejected"}

\* C28: a failure of the current hop reaches the transfer whether it is
\* direct or relayed: when update_payment returns after canceled, failed,
\* expired or rejected was reported for payment 0, settling at the
\* recipient's or at the remittance_user's channel, the transfer's status is
\* that status.
C28_FailureReachesTransfer ==
    ( /\ calc.fn = "update_payment"
      /\ calc.done
      /\ calc.status \in FailureStatuses
      /\ calc.out.res = "OK" )
    => calc.out.tr[1].status = calc.status

\* C29: however the handlers that add a payment to one transfer interleave,
\* no two payment rows of a transfer have the same payment_index, and a
\* transfer with a payment of index 1 has a payment of index 0.
C29_PaymentIndexUnique ==
    \A t \in 1..Len(transfers) :
        LET rows == transfers[t].payments
        IN  /\ \A i, j \in 1..Len(rows) :
                  rows[i].payment_index = rows[j].payment_index => i = j
            /\ (\E i \in 1..Len(rows) : rows[i].payment_index = 1)
                  => \E i \in 1..Len(rows) : rows[i].payment_index = 0

\* two workers loaded the same payment list; one inserted its payment and the
\* other's INSERT was refused
C29_Witness ==
    /\ last.op = "create_payment"
    /\ last.res = "Internal error"
    /\ \E i \in 1..Len(transfers[last.t].payments) :
          /\ transfers[last.t].payments[i].payment_index = last.idx
          /\ transfers[last.t].payments[i].provider = "Mercuryo"

\* C30: after start_payment every change of a transfer's status and of a
\* payment's status is made by update_payment or by submit_payout: a step
\* that changes the status of an existing transfer or payment is a call of
\* one of the two.
C30_StatusFunnel ==
    [][ ( \E t \in 1..Len(transfers) :
            \/ transfers'[t].status # transfers[t].status
            \/ \E i \in 1..Len(transfers[t].payments) :
                  transfers'[t].payments[i].status # transfers[t].payments[i].status )
        => ( last'.idx >= 0 \/ last'.op = "submit_payout" ) ]_vars

\* what C32 expects of a call: unknown says when the cached latest block
\* counts as unknown
ExpectedTransactionStatus(unknown) ==
    LET answers == { k \in 1..CHAIN_NUM_RETRIES : ~calc.rpc[k].raised }
        raises == \/ Len(calc.tx_id) # 66 \/ calc.tx_id[2] # "x" \/ calc.tx_id[3] = "g"
                  \/ answers = {}
        tx == calc.rpc[CHOOSE k \in answers : \A m \in answers : k <= m]
    IN  IF unknown THEN "pending"
        ELSE IF raises THEN "failed"
        ELSE IF tx.blockNumber = NullNum THEN "pending"
        ELSE IF tx.blockHash = NullStr THEN "failed"
        ELSE IF calc.latest_block < tx.blockNumber THEN "pending"
        ELSE IF calc.latest_block - tx.blockNumber >= calc.num_confirmations
        THEN "confirmed"
        ELSE "pending"

\* C32: get_transaction_status returns 'pending' while the cached latest
\* block is unknown (None); otherwise 'failed' when the lookup raises;
\* otherwise 'pending' for a transaction without blockNumber and 'failed' for
\* one without blockHash; otherwise 'confirmed' exactly when latest_block -
\* blockNumber >= num_confirmations and 'pending' when it is smaller, a stale
\* cache (latest_block < blockNumber) included.
C32_TransactionStatus ==
    (calc.fn = "get_transaction_status" /\ calc.done) =>
        calc.out = ExpectedTransactionStatus(calc.latest_block = NullNum)

\* C32 as amended: a cached latest block of 0 counts as unknown too.
C32_TransactionStatusZeroUnknown ==
    (calc.fn = "get_transaction_status" /\ calc.done) =>
        calc.out = ExpectedTransactionStatus(calc.latest_block = NullNum \/ calc.latest_block = 0)

\* a mined transaction seen confirmed, and seen through a stale cache
C32_Witness ==
    /\ calc.fn = "get_transaction_status"
    /\ calc.done
    /\ ~calc.rpc[10].raised
    /\ calc.rpc[10].blockHash # NullStr
    /\ \/ calc.out = "confirmed" /\ calc.latest_block = 7
       \/ calc.out = "pending" /\ calc.latest_block = 4

\* C33: get_transaction and _get_transaction_receipt make at most 10 RPC
\* attempts and terminate: they return the answer of the first attempt that
\* succeeds and make no further attempt, after 10 failed attempts they raise
\* the transaction-check error, and get_transaction makes no attempt for a
\* malformed transaction id.
C33_BoundedRetries ==
    (calc.fn \in {"get_transaction", "_get_transaction_receipt"} /\ calc.done) =>
        LET malformed == /\ calc.fn = "get_transaction"
                         /\ (Len(calc.tx_id) # 66 \/ calc.tx_id[2] # "x" \/ calc.tx_id[3] = "g")
            answers == { k \in 1..10 : ~calc.rpc[k].raised }
        IN  /\ calc.out.attempts <= 10
            /\ IF malformed
               THEN calc.out.attempts = 0 /\ ~calc.out.ok /\ calc.out.code = "WRONG_TXID"
               ELSE IF answers = {}
               THEN calc.out.attempts = 10 /\ ~calc.out.ok /\ calc.out.code = "TRX_CHECK_ERROR"
               ELSE /\ calc.out.ok
                    /\ calc.out.attempts \in answers
                    /\ \A k \in answers : calc.out.attempts <= k
                    /\ calc.out.value = calc.rpc[calc.out.attempts]

\* ten failed attempts, the eleventh call would have succeeded
C33_Witness ==
    /\ calc.fn \in {"get_transaction", "_get_transaction_receipt"}
    /\ calc.done
    /\ calc.out.code = "TRX_CHECK_ERROR"
    /\ ~calc.rpc[11].raised

\* the payment x of the monitor's ledger waits for its transaction: a crypto
\* payment type, status 'submitted', an external_id
AwaitsTransaction(x) ==
    /\ x[1] <= Len(transfers)
    /\ x[2] < Len(transfers[x[1]].payments)
    /\ LET payment == transfers[x[1]].payments[x[2] + 1]
       IN  /\ payment.payment_type \in { CryptoType(n) : n \in CRYPTO_NETWORK_NAMES }
           /\ payment.status = "submitted"
           /\ payment.external_id # NullStr

\* the payment x of the monitor's ledger has status 'paid out'
PaidOut(x) ==
    /\ x[1] <= Len(transfers)
    /\ x[2] < Len(transfers[x[1]].payments)
    /\ transfers[x[1]].payments[x[2] + 1].status = "paid out"

\* the network of payment x
NetworkOf(x) ==
    CHOOSE n \in CRYPTO_NETWORK_NAMES : CryptoType(n) = transfers[x[1]].payments[x[2] + 1].payment_type

\* C31: while the monitor keeps sweeping, the chains grow and the node of a
\* network answers, every payment of that network with a crypto payment type,
\* status 'submitted' and an external_id whose transaction is mined
\* eventually has status 'paid out'
C31_MinedIsPaidOut ==
    \A x \in (1..MaxSweepTransfers) \X (0..(MaxPayments - 1)) :
        (/\ AwaitsTransaction(x)
         /\ NetworkOf(x) \notin chain.down
         /\ chain.blockNumber[transfers[x[1]].payments[x[2] + 1].external_id] # NullNum)
            ~> PaidOut(x)

\* the same when the node of every network answers
C31_MinedIsPaidOutAllNodesUp ==
    \A x \in (1..MaxSweepTransfers) \X (0..(MaxPayments - 1)) :
        (/\ AwaitsTransaction(x)
         /\ chain.down = {}
         /\ chain.blockNumber[transfers[x[1]].payments[x[2] + 1].external_id] # NullNum)
            ~> PaidOut(x)

\* a step gives a payment the status 'paid out' only as update_payment of the
\* monitor, in a sweep whose latest_block is num_confirmations or more past
\* the transaction's block
C31_PaidOutOnlyConfirmed ==
    [][\A x \in (1..MaxSweepTransfers) \X (0..(MaxPayments - 1)) :
        (AwaitsTransaction(x) /\ transfers'[x[1]].payments[x[2] + 1].status = "paid out") =>
            /\ last'.op = "chain_monitor"
            /\ last'.idx = x[2]
            /\ chain.latest_block[NetworkOf(x)]
                  - chain.blockNumber[transfers[x[1]].payments[x[2] + 1].external_id]
                  >= num_confirmations(NetworkOf(x))]_vars

\* C34: a successful submit_payout on a transfer in 'pending payout' writes
\* status 'submitted', the external_id, the amount, provider_fee2 and the
\* payout currency's rate on hop 1, provider_fee1 on hop 0, and tm_fee and
\* status 'submitted' on the transfer, and nothing else; a submit_payout that
\* validate_existing_transaction refuses writes nothing.  The endpoint
\* passes provider_fee2 = 0, tm_fee = 1 and amount = 99.
C34_SubmitPayoutWrites ==
    [][\A t \in 1..Len(transfers) :
        (last'.op = "submit_payout" /\ last'.t = t /\ transfers[t].status = "pending payout") =>
            IF last'.res = "OK"
            THEN \E provider_fee1 \in {0, 1}, external_id \in TxIds :
                    transfers' =
                        [transfers EXCEPT
                            ![t].status = "submitted",
                            ![t].tm_fee = 1,
                            ![t].payments[1].provider_fee = provider_fee1,
                            ![t].payments[2].status = "submitted",
                            ![t].payments[2].external_id = external_id,
                            ![t].payments[2].total_amount = 99,
                            ![t].payments[2].provider_fee = 0,
                            ![t].payments[2].to_usd_rate =
                                ExchangeRateToUsd(PayoutChannel[transfers[t].payments[2].payout_channel_id].currency)]
            ELSE transfers' = transfers]_vars

C34_Witness ==
    /\ last.op = "submit_payout"
    /\ last.res = "OK"
    /\ transfers[last.t].status = "submitted"
    /\ transfers[last.t].payments[2].status = "submitted"
    /\ transfers[last.t].payments[1].provider_fee = 1

\* C35: Payment.update writes, on the Payment object and on its row alike,
\* exactly the fields of the patch that are not null; a field the patch leaves
\* null keeps the value it had, on the object and on the row; a patch with
\* every field null executes no statement; payment_index, sender and payout
\* channel, payment_type, provider and currency are as before
C35_SparsePatch ==
    (calc.fn = "update" /\ calc.done /\ ValidPatch(calc.patch)) =>
        LET supplied == { key \in DOMAIN calc.patch :
                            IF key \in {"status", "external_id"}
                            THEN calc.patch[key] # NullStr ELSE calc.patch[key] # NullNum }
        IN  /\ \A key \in supplied :
                  /\ calc.out.value[key] = calc.patch[key]
                  /\ calc.out.row[key] = calc.patch[key]
            /\ \A key \in DOMAIN calc.payment \ supplied :
                  /\ calc.out.value[key] = calc.payment[key]
                  /\ calc.out.row[key] = calc.row[key]
            /\ calc.out.executed <=> supplied # {}
            /\ DOMAIN calc.out.value = DOMAIN calc.payment
            /\ DOMAIN calc.out.row = DOMAIN calc.row

\* a patch that supplies external_id and provider_fee = 0 and leaves status
\* null, on a row whose status differs from the object's
C35_Witness ==
    /\ calc.fn = "update"
    /\ calc.done
    /\ calc.out.ok
    /\ calc.patch.status = NullStr
    /\ calc.patch.provider_fee = 0
    /\ calc.patch.external_id = "0xt1"
    /\ calc.row.status # calc.payment.status
    /\ calc.out.executed
    /\ calc.out.row.provider_fee = 0
    /\ calc.out.row.status = calc.row.status
    /\ calc.out.value.status = calc.payment.status

\* C36: whatever attach and remove requests ran, in whatever interleaving of
\* their statements, public.provider_account holds at most one committed row
\* for a (channel_id, provider) pair
C36_OneRowPerChannelAndProvider ==
    \A i, j \in 1..Len(pg.provider_account) :
        pg.provider_account[i] = pg.provider_account[j] => i = j

\* an attach that found the wallet's channel removed, restored it and, for
\* every provider account, updated the committed row instead of inserting
C36_Witness ==
    \E w \in Workers :
        /\ pg.txn[w].pc = "providers"
        /\ pg.txn[w].was_removed
        /\ pg.txn[w].todo = << >>
        /\ pg.txn[w].rows = << >>
        /\ Len(pg.provider_account) = 2

\* C37: a remove_payout_channel that succeeds marks the channel removed,
\* leaves every other row and every provider account as it was, and emits
\* exactly one AccountDeleted, for this channel; a removal request for a
\* channel that is removed fails with OBJECT_NOT_FOUND, changes nothing and
\* emits nothing
C37_RemovalCascade ==
    [][\A c \in 1..Len(accounts.payout_channel) :
        (last'.op = "remove_payout_channel" /\ last'.t = c) =>
            /\ accounts.payout_channel[c].removed =>
                  /\ last'.res = "OBJECT_NOT_FOUND"
                  /\ accounts' = accounts
            /\ last'.res = "OK" =>
                  /\ ~accounts.payout_channel[c].removed
                  /\ accounts'.payout_channel = [accounts.payout_channel EXCEPT ![c].removed = TRUE]
                  /\ accounts'.provider_account = accounts.provider_account
                  /\ accounts'.notifications =
                        Append(accounts.notifications,
                               [kind |-> "AccountDeleted",
                                creator_id |-> accounts.payout_channel[c].creator_id,
                                channel_id |-> c])
            /\ last'.res # "OK" => accounts' = accounts]_vars

\* a channel was removed, and a further removal request for it was refused
C37_Witness ==
    /\ last.op = "remove_payout_channel"
    /\ last.res = "OBJECT_NOT_FOUND"
    /\ accounts.payout_channel[last.t].removed
    /\ \E row \in accounts.provider_account : row[1] = last.t
    /\ Len(SelectSeq(accounts.notifications,
                     LAMBDA e : e.kind = "AccountDeleted" /\ e.channel_id = last.t)) = 1


\* the recipient channels of a route's steps
RecipientChannels(route) ==
    {route.first_step.channel_id}
    \cup (IF route.second_step # NoStep THEN {route.second_step.channel_id} ELSE {})

\* every route the two planners return, for any recipient, sender channel,
\* payment type and amount
ReturnedRoutes ==
    UNION { get_available_routes(r, sc)
            \cup UNION { get_cheapest_route(r, sc, pt, "USDC", a) :
                           pt \in {"card", "onramp", CryptoType("Polygon"), CryptoType("Ethereum")},
                           a \in Amounts \cup {NullNum} } :
            r \in Creators \cup ChannelIds, sc \in {NullStr} \cup CircleChannels }

\* C38: while a payout channel is removed, no route that get_available_routes
\* or get_cheapest_route returns has it as the recipient channel of its first
\* or second step, be it a channel of the recipient or a proxy channel, and
\* no request that starts a transfer writes a payment towards it.
C38_RemovedNeverRouted ==
    /\ [](\A route \in ReturnedRoutes : RecipientChannels(route) \cap removed = {})
    /\ [][\A t \in (Len(transfers) + 1)..Len(transfers') :
             \A i \in 1..Len(transfers'[t].payments) :
                transfers'[t].payments[i].payout_channel_id \notin removed]_vars

\* the proxy wallet is removed and a request has started a transfer: its one
\* payment goes to the recipient's own channel, no second payment exists
C38_Witness ==
    /\ "ch_relay_wallet" \in removed
    /\ last.op \in {"begin_card_transfer", "begin_crypto_transfer", "circle_start_transfer"}
    /\ last.res = "OK"
    /\ last.t = Len(transfers)
    /\ Len(transfers[last.t].payments) = 1
    /\ PayoutChannel[transfers[last.t].payments[1].payout_channel_id].creator_id
          = transfers[last.t].creator_id

\* payment 0 already has a transaction id, or is settled
AlreadySubmitted(payment) == payment.external_id # NullStr \/ payment.status = "paid out"

\* C39: transfer_submit_crypto accepts at most one transaction id per
\* payment: a submission for a payment 0 that has an external_id or is
\* 'paid out' is not accepted and changes nothing, also when it loaded the
\* payment while another submission was in progress, and a submission that
\* loaded such a payment is refused as a payment error.
C39_OneTransactionId ==
    [][(last'.op = "transfer_submit_crypto" /\ PaymentFound(transfers, last'.t, 0)) =>
          /\ AlreadySubmitted(transfers[last'.t].payments[1]) =>
                 /\ last'.res # "OK"
                 /\ transfers' = transfers
                 /\ sent' = sent
          /\ \A w \in Workers :
                 (/\ creating[w] # NoCall
                  /\ creating'[w] = NoCall
                  /\ AlreadySubmitted(creating[w].payment)) => last'.res = "PAYMENT"]_vars

\* the part of C39 about the submissions that come later: a submission that
\* loaded a payment 0 with an external_id, or 'paid out', is refused as a
\* payment error and changes nothing
C39_LaterSubmissionRefused ==
    [][\A w \in Workers :
          (/\ last'.op = "transfer_submit_crypto"
           /\ creating[w] # NoCall
           /\ creating'[w] = NoCall
           /\ AlreadySubmitted(creating[w].payment)) =>
              /\ last'.res = "PAYMENT"
              /\ transfers' = transfers
              /\ sent' = sent]_vars
=============================================================================
